---- MODULE Spec2Model ----
(***************************************************************************)
(* Model of the goydb replicator: Replicator.Run (src/replicator.go) and   *)
(* the two peers it talks to.  One action per peer request of a run; the   *)
(* bookkeeping that follows a request belongs to the action of that        *)
(* request.                                                                *)
(***************************************************************************)
EXTENDS Integers, Sequences, FiniteSets, TLC

\* ------------------------------------------------------------------ bounds
MaxDocs == 2
MaxRuns == 2
MaxPolls == 2
MaxHist == 2

\* ------------------------------------------------------- program constants
RECURSIVE Xor(_, _)
\* Go's binary ^ on non-negative integers (bitwise exclusive or)
Xor(a, b) ==
  IF a = 0 THEN b
  ELSE IF b = 0 THEN a
  ELSE (((a % 2) + (b % 2)) % 2) + (2 * Xor(a \div 2, b \div 2))

\* const MB10 = 10 * (1024 ^ 2)
MB10 == 10 * Xor(1024, 2)

\* const NoVersion = "0"
NoVersion == "0"

\* errors.New values of the package
ErrReplicationCompleted == "replication completed"
ErrNotFound == "not found"
ErrFailed == "operation failed"

\* --------------------------------------------------------------- inputs
\* byte sizes a fetched document can report (sizeWriter tally)
DocSizes == {6000, 1024 * 1024, 20 * 1024 * 1024}

\* a source document: does its revision carry attachment parts, and its size
\* (no branch reads the size of a document without attachment parts)
DocKinds ==
  [att : {TRUE}, size : DocSizes] \cup {[att |-> FALSE, size |-> 6000]}

\* the feeds the source can hold: documents 1..n in update order
RECURSIVE SeqsUpTo(_, _)
SeqsUpTo(S, n) ==
  IF n = 0 THEN {<<>>}
  ELSE LET shorter == SeqsUpTo(S, n - 1)
       IN shorter \cup {Append(s, x) : s \in {t \in shorter : Len(t) = n - 1}, x \in S}

Feeds == SeqsUpTo(DocKinds, MaxDocs)

VARIABLES
  \* the job (immutable for a run)
  createTarget, continuous,
  \* the peers
  srcExists, srcDocs, srcLog, tgtExists, tgtDocs, tgtLog,
  \* Replicator fields
  replicationID, sourceLastSeq, diffResp, sourceRepLog, targetRepLog,
  currentHistory,
  \* position and locals of the running Run
  pc, fetchedLog, changes, lastSeq, todo, doc, stack,
  \* observation of the run: requests issued, outcome, number of runs
  reqs, ret, prevRet, runs, polls,
  \* the context handed to Run: has it been cancelled, and after how many
  \* requests of the run
  cancelled, cancelAt,
  \* a call of one function of the packages on its own: arguments and result
  call, result

vars == <<createTarget, continuous, srcExists, srcDocs, srcLog, tgtExists,
          tgtDocs, tgtLog, replicationID, sourceLastSeq, diffResp,
          sourceRepLog, targetRepLog, currentHistory, pc, fetchedLog, changes,
          lastSeq,
          todo, doc, stack, reqs, ret, prevRet, runs, polls, cancelled,
          cancelAt, call, result>>

jobVars == <<createTarget, continuous>>
ctxVars == <<cancelled, cancelAt>>
callVars == <<call, result>>
peerVars == <<srcExists, srcDocs, srcLog, tgtExists, tgtDocs, tgtLog>>
fieldVars == <<replicationID, sourceLastSeq, diffResp, sourceRepLog,
               targetRepLog, currentHistory>>
localVars == <<fetchedLog, changes, lastSeq, todo, doc, stack>>

\* ------------------------------------------------------------ data model
Nil == [nil |-> TRUE]

\* new(client.ReplicationLog)
EmptyLog ==
  [ID |-> "", SessionID |-> "", SourceLastSeq |-> "",
   ReplicationIDVersion |-> 0, History |-> <<>>]

\* the record of the earlier run taken over, with a new session and start
NewHistoryCarriedOver(id, since) ==
  IF currentHistory = [nil |-> TRUE]
  THEN [SessionID |-> id, StartLastSeq |-> since, EndLastSeq |-> "",
        RecordedSeq |-> "", DocsRead |-> 0, DocsWritten |-> 0,
        DocWriteFailures |-> 0, MissingFound |-> 0, MissingChecked |-> 0]
  ELSE [currentHistory EXCEPT !.SessionID = id, !.StartLastSeq = since]

\* &client.History{StartTime: now, StartLastSeq: since, SessionID: id}
NewHistory(id, since) ==
  [SessionID |-> id, StartLastSeq |-> since, EndLastSeq |-> "",
   RecordedSeq |-> "", DocsRead |-> 0, DocsWritten |-> 0,
   DocWriteFailures |-> 0, MissingFound |-> 0, MissingChecked |-> 0]

NoRet == [status |-> "none", phase |-> "", cause |-> ""]
OkRet == [status |-> "ok", phase |-> "", cause |-> ""]
ErrRet(phase, cause) == [status |-> "error", phase |-> phase, cause |-> cause]

Req(peer, op, ok, docs) ==
  [peer |-> peer, op |-> op, ok |-> ok, docs |-> docs,
   st |-> IF ok THEN "ok" ELSE "fail"]

\* a request whose answer the client tells apart by status code
ReqSt(peer, op, st) == [Req(peer, op, st = "ok", <<>>) EXCEPT !.st = st]

\* ------------------------------------------------- the replication identity
\* the byte value of the characters used in names, URLs and headers
ByteOf(c) == IF c = "a" THEN 97 ELSE IF c = "b" THEN 98 ELSE 124

\* sort.StringSlice.Less: s < t, byte by byte
RECURSIVE Less(_, _)
Less(s, t) ==
  IF t = "" THEN FALSE
  ELSE IF s = "" THEN TRUE
  ELSE IF Head(s) # Head(t) THEN ByteOf(Head(s)) < ByteOf(Head(t))
  ELSE Less(Tail(s), Tail(t))

\* one key put in its place in a sorted slice
RECURSIVE Insert(_, _)
Insert(k, sorted) ==
  IF sorted = <<>> THEN <<k>>
  ELSE IF Less(k, Head(sorted)) THEN <<k>> \o sorted
  ELSE <<Head(sorted)>> \o Insert(k, Tail(sorted))

\* the keys left in the order the map was ranged over
SortKeysSkipped(keys) == keys

\* sort.Stable(sort.StringSlice(keys))
RECURSIVE SortKeys(_)
SortKeys(keys) ==
  IF keys = <<>> THEN <<>>
  ELSE Insert(keys[Len(keys)], SortKeys(SubSeq(keys, 1, Len(keys) - 1)))

\* the orders in which Go can range over the keys of a map
Orders(keys) ==
  {o \in [1..Cardinality(keys) -> keys] :
     \A i, j \in 1..Cardinality(keys) : i # j => o[i] # o[j]}

\* Remote.GenerateReplicationID: key|value| for each key of the sorted slice
RECURSIVE HeaderBytes(_, _)
HeaderBytes(headers, keys) ==
  IF keys = <<>> THEN ""
  ELSE Head(keys) \o "|" \o headers[Head(keys)] \o "|"
         \o HeaderBytes(headers, Tail(keys))

\* Remote.GenerateReplicationID: what a remote writes to the hash, its
\* headers ranged over in the order `order`
RemoteBytes(remote, order) ==
  remote.URL \o "|" \o HeaderBytes(remote.Headers, SortKeys(order))

\* Job.GenerateReplicationID: the byte string written to the hash
HashedBytes(name, job, so, to) ==
  name \o "|" \o RemoteBytes(job.Source, so) \o "|"
       \o RemoteBytes(job.Target, to) \o "|"
       \o (IF job.CreateTarget THEN "T" ELSE "F")
       \o (IF job.Continuous THEN "T" ELSE "F")

\* hex.EncodeToString(sha256.Sum(bytes)): equal for equal byte strings, taken
\* to differ for different ones
Digest(bytes) == "sha256:" \o bytes

\* Job.GenerateReplicationID
JobGenerateReplicationID(name, job, so, to) == Digest(HashedBytes(name, job, so, to))

\* NewReplicator(name, job): the name and the endpoints of the job that runs
RunnerName == "a"
SourceRemote == [URL |-> "a", Headers |-> [k \in {"a"} |-> "b"]]
TargetRemote == [URL |-> "b", Headers |-> [k \in {} |-> ""]]

\* r.job
Job ==
  [Source |-> SourceRemote, Target |-> TargetRemote,
   CreateTarget |-> createTarget, Continuous |-> continuous]

\* FindCommonAncestry: r.job.GenerateReplicationID(r.name)
GenerateReplicationID ==
  LET so == CHOOSE o \in Orders(DOMAIN Job.Source.Headers) : TRUE
      to == CHOOSE o \in Orders(DOMAIN Job.Target.Headers) : TRUE
  IN JobGenerateReplicationID(RunnerName, Job, so, to)

\* ------------------------------------------------------------------ Init
Init ==
  /\ createTarget \in BOOLEAN
  /\ continuous \in BOOLEAN
  /\ srcExists \in BOOLEAN
  /\ srcDocs \in Feeds
  /\ srcLog = Nil
  /\ tgtExists \in BOOLEAN
  /\ tgtDocs = {}
  /\ tgtLog = Nil
  /\ replicationID = ""
  /\ sourceLastSeq = ""
  /\ diffResp = {}
  /\ sourceRepLog = Nil
  /\ targetRepLog = Nil
  /\ currentHistory = Nil
  /\ pc = "idle"
  /\ fetchedLog = Nil
  /\ changes = Nil
  /\ lastSeq = ""
  /\ todo = {}
  /\ doc = 0
  /\ stack = <<>>
  /\ reqs = <<>>
  /\ ret = NoRet
  /\ prevRet = NoRet
  /\ runs = 0
  /\ polls = 0
  /\ cancelled = FALSE
  /\ cancelAt = 0
  /\ call = Nil
  /\ result = Nil

\* ------------------------------------------------------------------- Run
\* Run returns logErrf("<phase> failed: %w", err)
Fail(phase, cause) ==
  /\ pc' = "idle"
  /\ ret' = ErrRet(phase, cause)

\* a caller invokes Run(ctx): a new context and new locals, the fields of
\* the Replicator as the last run left them; of the earlier Run the caller
\* remembers whether it returned nil or an error
RunStart ==
  /\ pc = "idle"
  /\ runs < MaxRuns
  /\ runs' = runs + 1
  /\ pc' = "check_source"
  /\ reqs' = <<>>
  /\ prevRet' = [NoRet EXCEPT !.status = ret.status]
  /\ ret' = NoRet
  /\ polls' = 0
  /\ cancelled' = FALSE
  /\ cancelAt' = 0
  /\ fetchedLog' = Nil
  /\ changes' = Nil
  /\ lastSeq' = ""
  /\ todo' = {}
  /\ doc' = 0
  /\ stack' = <<>>
  /\ UNCHANGED <<jobVars, callVars, peerVars, fieldVars>>

\* the caller cancels the context of the running Run
Cancel ==
  /\ pc # "idle"
  /\ ~cancelled
  /\ cancelled' = TRUE
  /\ cancelAt' = Len(reqs)
  /\ UNCHANGED <<jobVars, callVars, peerVars, fieldVars, localVars, pc, reqs, ret,
                 prevRet, runs, polls>>

\* Client.request: with a cancelled context the round trip returns an error
Outcomes == IF cancelled THEN {FALSE} ELSE BOOLEAN

\* the statuses a request on the database root can get
RootStatus(exists) ==
  IF cancelled THEN {"fail"}
  ELSE IF exists THEN {"ok", "fail"} ELSE {"notfound", "fail"}

\* every answer but 200 taken for a missing database
CheckErrAllNotFound(st) == IF st = "ok" THEN "" ELSE ErrNotFound

\* Client.Check: 200 -> nil, 404 -> ErrNotFound, other -> error
CheckErr(st) == IF st = "ok" THEN "" ELSE IF st = "notfound" THEN ErrNotFound ELSE "check request failed"

\* VerifyPeers: r.source.Check
SourceCheck ==
  /\ pc = "check_source"
  /\ \E st \in RootStatus(srcExists) :
       /\ reqs' = Append(reqs, ReqSt("source", "Check", st))
       /\ IF CheckErr(st) = ""
          THEN pc' = "check_target" /\ ret' = ret
          ELSE Fail("verify peers", CheckErr(st))
  /\ UNCHANGED <<jobVars, ctxVars, callVars, peerVars, fieldVars, localVars, prevRet, runs, polls>>

\* VerifyPeers: r.target.Check and the decision to create the target
TargetCheck ==
  /\ pc = "check_target"
  /\ \E st \in RootStatus(tgtExists) :
       /\ reqs' = Append(reqs, ReqSt("target", "Check", st))
       /\ IF CheckErr(st) = ""
          THEN pc' = "source_info" /\ ret' = ret
          ELSE IF CheckErr(st) # ErrNotFound
          THEN Fail("verify peers", CheckErr(st))
          ELSE IF ~createTarget
          THEN Fail("verify peers", ErrNotFound)
          ELSE pc' = "create_target" /\ ret' = ret
  /\ UNCHANGED <<jobVars, ctxVars, callVars, peerVars, fieldVars, localVars, prevRet, runs, polls>>

\* VerifyPeers: r.target.Create
TargetCreate ==
  /\ pc = "create_target"
  /\ \E ok \in Outcomes :
       /\ reqs' = Append(reqs, Req("target", "Create", ok, <<>>))
       /\ IF ok
          THEN pc' = "source_info" /\ ret' = ret /\ tgtExists' = TRUE
          ELSE Fail("verify peers", ErrFailed) /\ tgtExists' = tgtExists
  /\ UNCHANGED <<jobVars, ctxVars, callVars, srcExists, srcDocs, srcLog, tgtDocs, tgtLog,
                 fieldVars, localVars, prevRet, runs, polls>>

\* the answer of the info request not looked at
InfoErrIgnored(st) == ""

\* Client.Info: 200 -> info, 404 -> ErrNotFound, other -> error
InfoErr(st) == IF st = "ok" THEN "" ELSE IF st = "notfound" THEN ErrNotFound ELSE "info request failed"

\* the statuses a later request of the run can get on a database that was
\* there when Check asked: someone may have deleted it since
LaterStatus(exists) ==
  IF cancelled THEN {"fail"}
  ELSE IF exists THEN {"ok", "notfound", "fail"} ELSE {"notfound", "fail"}

\* GetPeersInformation: r.source.Info
SourceInfo ==
  /\ pc = "source_info"
  /\ \E st \in LaterStatus(srcExists) :
       /\ reqs' = Append(reqs, ReqSt("source", "Info", st))
       /\ srcExists' = (srcExists /\ st # "notfound")
       /\ IF InfoErr(st) = ""
          THEN pc' = "target_info" /\ ret' = ret
          ELSE Fail("get peers information", InfoErr(st))
  /\ UNCHANGED <<jobVars, ctxVars, callVars, srcDocs, srcLog, tgtExists, tgtDocs,
                 tgtLog, fieldVars, localVars, prevRet, runs, polls>>

\* GetPeersInformation: r.target.Info
TargetInfo ==
  /\ pc = "target_info"
  /\ \E st \in LaterStatus(tgtExists) :
       /\ reqs' = Append(reqs, ReqSt("target", "Info", st))
       /\ tgtExists' = (tgtExists /\ st # "notfound")
       /\ IF InfoErr(st) = ""
          THEN pc' = "source_log" /\ ret' = ret
          ELSE Fail("get peers information", InfoErr(st))
  /\ UNCHANGED <<jobVars, ctxVars, callVars, srcExists, srcDocs, srcLog, tgtDocs,
                 tgtLog, fieldVars, localVars, prevRet, runs, polls>>

\* the statuses GET _local/<id> can get on a peer holding the document `stored`
LogStatus(stored) ==
  IF cancelled THEN {"fail"}
  ELSE IF stored = Nil THEN {"notfound", "fail"} ELSE {"ok", "fail"}

\* every answer but 200 taken for a missing log
LogErrAllNotFound(st) == IF st = "ok" THEN "" ELSE ErrNotFound

\* Client.GetReplicationLog: 200 -> log, 404 -> ErrNotFound, other -> error
LogErr(st) == IF st = "ok" THEN "" ELSE IF st = "notfound" THEN ErrNotFound ELSE "replication log request failed"

\* a scan that assigns nothing when no session id is shared
RECURSIVE ScanHistoryNoFallback(_, _, _)
ScanHistoryNoFallback(sh, th, i) ==
  IF i > Len(sh) THEN ""
  ELSE IF \E j \in 1..Len(th) : sh[i].SessionID = th[j].SessionID
       THEN sh[i].RecordedSeq
       ELSE ScanHistoryNoFallback(sh, th, i + 1)

\* CompareReplicationLogs: the first source history entry (in slice order)
\* whose session id occurs in the target history
RECURSIVE ScanHistory(_, _, _)
ScanHistory(sh, th, i) ==
  IF i > Len(sh) THEN NoVersion
  ELSE IF \E j \in 1..Len(th) : sh[i].SessionID = th[j].SessionID
       THEN sh[i].RecordedSeq
       ELSE ScanHistory(sh, th, i + 1)

\* the top-level session ids and source_last_seq not looked at
CompareByHistory(source, target) ==
  IF source = Nil \/ target = Nil THEN NoVersion
  ELSE ScanHistory(source.History, target.History, 1)

\* the session ids of the two logs not compared
CompareBySourceSeq(source, target) ==
  IF source = Nil \/ target = Nil THEN NoVersion
  ELSE IF source.SourceLastSeq # ""
       THEN source.SourceLastSeq
       ELSE ScanHistory(source.History, target.History, 1)

\* CompareReplicationLogs: the value assigned to r.sourceLastSeq
CompareReplicationLogs(source, target) ==
  IF source = Nil \/ target = Nil THEN NoVersion
  ELSE IF source.SessionID = target.SessionID /\ source.SourceLastSeq # ""
       THEN source.SourceLastSeq
       ELSE ScanHistory(source.History, target.History, 1)

\* FindCommonAncestry: generate the id, r.source.GetReplicationLog
GetSourceLog ==
  /\ pc = "source_log"
  /\ replicationID' = GenerateReplicationID
  /\ \E st \in LogStatus(srcLog) :
       /\ reqs' = Append(reqs, ReqSt("source", "GetReplicationLog", st))
       /\ IF LogErr(st) # "" /\ LogErr(st) # ErrNotFound
          THEN Fail("find common ancestry", LogErr(st)) /\ fetchedLog' = fetchedLog
          ELSE /\ pc' = "target_log"
               /\ ret' = ret
               /\ fetchedLog' = IF st = "ok" THEN srcLog ELSE EmptyLog
  /\ UNCHANGED <<jobVars, ctxVars, callVars, peerVars, sourceLastSeq, diffResp, sourceRepLog,
                 targetRepLog, currentHistory, changes, lastSeq, todo, doc,
                 stack, prevRet, runs, polls>>

\* FindCommonAncestry: r.target.GetReplicationLog, CompareReplicationLogs and
\* the new in-progress history record
GetTargetLog ==
  /\ pc = "target_log"
  /\ \E st \in LogStatus(tgtLog) :
       /\ reqs' = Append(reqs, ReqSt("target", "GetReplicationLog", st))
       /\ IF LogErr(st) # "" /\ LogErr(st) # ErrNotFound
          THEN /\ Fail("find common ancestry", LogErr(st))
               /\ UNCHANGED <<sourceLastSeq, sourceRepLog, targetRepLog, currentHistory>>
          ELSE LET tl == IF st = "ok" THEN tgtLog ELSE EmptyLog
                   since == CompareReplicationLogs(fetchedLog, tl)
               IN /\ pc' = "changes"
                  /\ ret' = ret
                  /\ sourceLastSeq' = since
                  /\ sourceRepLog' = fetchedLog
                  /\ targetRepLog' = tl
                  /\ currentHistory' = NewHistory(replicationID, since)
  /\ UNCHANGED <<jobVars, ctxVars, callVars, peerVars, replicationID, diffResp, localVars,
                 prevRet, runs, polls>>

\* sequence tokens of the source's changes feed: the update count in decimal
SeqNum(tok) ==
  IF tok = "" THEN 0 ELSE CHOOSE n \in 0..Len(srcDocs) : ToString(n) = tok

\* the source's answer to _changes?since=<tok>: the ids updated after tok
ChangesSince(tok) ==
  [Results |-> {i \in 1..Len(srcDocs) : i > SeqNum(tok)},
   LastSeq |-> ToString(Len(srcDocs))]

\* the target's answer to _revs_diff: the requested ids it does not hold
RevsDiffOf(diff) == {id \in diff : id \notin tgtDocs}

\* an empty batch taken for one with changes
NoMoreChangesNever(resp) == FALSE

\* LocateChangedDocuments: "No more changes", len(changes.Results) == 0
NoMoreChanges(resp) == resp.Results = {}

\* an empty batch ending the run whatever the job says
KeepPollingNever(cont) == FALSE

\* LocateChangedDocuments: on an empty batch a continuous job goes back to
\* start, another job returns ErrReplicationCompleted
KeepPolling(cont) == cont

\* the first revision token of a document of the source
RevOf(id) == ToString(id) \o "-a"

\* changes.Results for the ids of a batch: one entry per id, in feed order,
\* with the revision of the document
FeedResults(ids) ==
  [k \in 1..Cardinality(ids) |->
     LET id == CHOOSE i \in ids : Cardinality({j \in ids : j < i}) = k - 1
     IN [ID |-> id, Changes |-> <<RevOf(id)>>]]

\* for each id the revisions of its last entry only
RECURSIVE BuildDiffLastEntry(_, _)
BuildDiffLastEntry(diff, results) ==
  IF results = <<>> THEN diff
  ELSE LET change == Head(results)
       IN BuildDiffLastEntry(
            [id \in DOMAIN diff \cup {change.ID} |->
               IF id = change.ID THEN change.Changes ELSE diff[id]],
            Tail(results))

\* LocateChangedDocuments, "Read Batch of Changes": the revision-diff request
\* after the entries of results are added to diff
RECURSIVE BuildDiff(_, _)
BuildDiff(diff, results) ==
  IF results = <<>> THEN diff
  ELSE LET change == Head(results)
       IN BuildDiff(
            IF change.Changes = <<>> THEN diff
            ELSE [id \in DOMAIN diff \cup {change.ID} |->
                    IF id # change.ID THEN diff[id]
                    ELSE IF id \in DOMAIN diff
                         THEN diff[id] \o change.Changes
                         ELSE change.Changes],
            Tail(results))

\* make(client.RevDiffRequest)
NoDiff == [id \in {} |-> <<>>]

\* a missing database taken for a feed
ChangesErrNotFoundAccepted(st) ==
  IF st = "fail" THEN "changes request failed" ELSE ""

\* Client.Changes: 200 -> feed, 404 -> ErrNotFound, other -> error
ChangesErr(st) ==
  IF st = "ok" THEN "" ELSE IF st = "notfound" THEN ErrNotFound
  ELSE "changes request failed"

\* LocateChangedDocuments: r.source.Changes, the empty-batch decision and the
\* revision-diff request built from the batch
Changes ==
  /\ pc = "changes"
  /\ polls < MaxPolls
  /\ polls' = polls + 1
  /\ \E st \in LaterStatus(srcExists) :
       /\ reqs' = Append(reqs, ReqSt("source", "Changes", st))
       /\ srcExists' = (srcExists /\ st # "notfound")
       /\ IF ChangesErr(st) # ""
          THEN /\ Fail("locate changed documents", ChangesErr(st))
               /\ UNCHANGED <<changes, currentHistory>>
          ELSE LET resp == ChangesSince(sourceLastSeq)
               IN IF NoMoreChanges(resp)
                  THEN /\ IF KeepPolling(continuous)
                          THEN pc' = "changes" /\ ret' = ret
                          ELSE Fail("locate changed documents", ErrReplicationCompleted)
                       /\ UNCHANGED <<changes, currentHistory>>
                  ELSE /\ pc' = "revs_diff"
                       /\ ret' = ret
                       /\ changes' = resp
                       /\ currentHistory' =
                            [currentHistory EXCEPT !.MissingFound =
                               @ + Cardinality(DOMAIN BuildDiff(NoDiff, FeedResults(resp.Results)))]
  /\ UNCHANGED <<jobVars, ctxVars, callVars, srcDocs, srcLog, tgtExists, tgtDocs,
                 tgtLog, replicationID, sourceLastSeq, diffResp,
                 sourceRepLog, targetRepLog, fetchedLog, lastSeq, todo, doc,
                 stack, prevRet, runs>>

\* Stack.Size: the sum of the sizes of the documents in the stack
RECURSIVE StackSize(_)
StackSize(stk) ==
  IF stk = <<>> THEN 0 ELSE srcDocs[Head(stk)].size + StackSize(Tail(stk))

\* ReplicateChanges: where the range loop goes after the body, and what
\* follows the loop ("stack too small but changes available? push rest")
NextIter(stk, rest) ==
  IF rest # {} THEN "fetch"
  ELSE IF Len(stk) > 0 THEN "bulk_rest" ELSE "finalize"

\* ReplicateChanges: "Stack is Full?" at the end of the loop body
AfterDoc(stk, rest) ==
  IF StackSize(stk) > MB10 THEN "bulk" ELSE NextIter(stk, rest)

\* ------------------------------------------------ fetched documents
\* the most attachment parts a fetched document carries
MaxParts == 2

\* the names of the attachments of a document
Filenames == {"f", "g"}

\* compression and its inverse; bytes that are not a gzip stream do not
\* decompress
Gzip(bytes) == "gz(" \o bytes \o ")"
IsGzip(bytes) == Len(bytes) >= 4 /\ SubSeq(bytes, 1, 3) = "gz("
Gunzip(bytes) == SubSeq(bytes, 4, Len(bytes) - 1)

\* base64.StdEncoding and its inverse
Base64(bytes) == "b64:" \o bytes
Base64Decode(text) == SubSeq(text, 5, Len(text))

\* a JSON object with the fields removed, and with one field set
Without(obj, fields) == [f \in DOMAIN obj \ fields |-> obj[f]]
With(obj, field, value) ==
  [f \in DOMAIN obj \cup {field} |-> IF f = field THEN value ELSE obj[f]]

\* the _attachments entries a source sends: an attachment that follows as a
\* part, one that follows compressed, and a stub of an unchanged attachment
FollowsEntry ==
  [f \in {"content_type", "revpos", "digest", "length", "follows"} |->
     IF f = "follows" THEN "true" ELSE f]
GzipEntry ==
  [f \in {"content_type", "revpos", "digest", "length", "follows",
          "encoding", "encoded_length"} |->
     IF f = "follows" THEN "true" ELSE IF f = "encoding" THEN "gzip" ELSE f]
StubEntry ==
  [f \in {"content_type", "revpos", "digest", "length", "stub"} |->
     IF f = "stub" THEN "true" ELSE f]
Entries == {FollowsEntry, GzipEntry, StubEntry}

\* d.Data: has says whether _attachments is a JSON object, atts is that object
DocData ==
  {[has |-> FALSE, atts |-> [f \in {} |-> FollowsEntry]]}
    \cup {[has |-> TRUE, atts |-> a] :
            a \in UNION {[names -> Entries] : names \in SUBSET Filenames}}

\* attachmentMultipartData: the file name of the Content-Disposition header
\* ("" when the header has none) and the bytes read from the part
PartBytes == {"x", Gzip("x")}
AttachmentParts == [filename : Filenames \cup {""}, data : PartBytes]

\* the attachments of a document have different names
DistinctNames(parts) ==
  \A i, j \in DOMAIN parts :
    (i # j /\ parts[i].filename # "") => parts[i].filename # parts[j].filename

\* CompleteDoc
CompleteDocs ==
  [Data : DocData,
   attachments : {parts \in UNION {[1..n -> AttachmentParts] : n \in 0..MaxParts} :
                    DistinctNames(parts)}]

\* CompleteDoc.HasChangedAttachments
HasChangedAttachments(d) == Len(d.attachments) > 0

\* the compressed bytes inlined as they came
InlineEntryCompressed(attObj, bytes) ==
  [err |-> "",
   attObj |-> Without(With(Without(attObj, {"encoding", "encoded_length"}),
                           "data", Base64(bytes)),
                      {"stub", "digest", "length", "follows"})]

\* InlineAttachments, the body of the loop from "if encoded via gzip" on:
\* the entry after the bytes of its part are inlined
InlineEntry(attObj, bytes) ==
  IF "encoding" \in DOMAIN attObj /\ attObj["encoding"] = "gzip"
  THEN IF ~IsGzip(bytes)
       THEN [err |-> "unable to create attachment from gzip", attObj |-> attObj]
       ELSE [err |-> "",
             attObj |-> Without(With(Without(attObj, {"encoding", "encoded_length"}),
                                     "data", Base64(Gunzip(bytes))),
                                {"stub", "digest", "length", "follows"})]
  ELSE [err |-> "",
        attObj |-> Without(With(attObj, "data", Base64(bytes)),
                           {"stub", "digest", "length", "follows"})]

ErrFilenameMissing == "invalid attachment, filename missing"
ErrNoAttachments == "invalid attachments data in json"
ErrNoEntry == "invalid attachment data in json"

\* InlineAttachments, the loop over d.attachments: the entries are changed in
\* place, so an error leaves the entries of the earlier parts inlined
RECURSIVE InlineParts(_, _)
InlineParts(data, parts) ==
  IF parts = <<>> THEN [err |-> "", Data |-> data]
  ELSE LET filename == Head(parts).filename
       IN IF filename = "" THEN [err |-> ErrFilenameMissing, Data |-> data]
          ELSE IF ~data.has THEN [err |-> ErrNoAttachments, Data |-> data]
          ELSE IF filename \notin DOMAIN data.atts
               THEN [err |-> ErrNoEntry, Data |-> data]
          ELSE LET r == InlineEntry(data.atts[filename], Head(parts).data)
               IN IF r.err # "" THEN [err |-> r.err, Data |-> data]
                  ELSE InlineParts(
                         [data EXCEPT !.atts = With(@, filename, r.attObj)],
                         Tail(parts))

\* every document inlines without an error
InlineAttachmentsUnchecked(d) == [err |-> "", Data |-> d.Data]

\* CompleteDoc.InlineAttachments
InlineAttachments(d) == InlineParts(d.Data, d.attachments)

\* ------------------------------------------------ multipart decoding
\* the most top-level parts of a fetched response (one per open revision)
MaxRevs == 2

\* strings.HasPrefix
HasPrefix(s, prefix) ==
  Len(s) >= Len(prefix) /\ SubSeq(s, 1, Len(prefix)) = prefix

\* a Content-Type header that starts with the media type and carries a quoted,
\* non-empty boundary, as boundaryMixedRegexp and boundaryRelatedRegexp ask
HasBoundary(contentType, mediaType) ==
  LET prefix == mediaType \o "; boundary=\""
  IN /\ HasPrefix(contentType, prefix)
     /\ Len(contentType) >= Len(prefix) + 2
     /\ SubSeq(contentType, Len(contentType), Len(contentType)) = "\""

\* the file name dispositionFilename finds in a Content-Disposition header,
\* "" when it finds none
FilenameOf(disposition) ==
  LET prefix == "attachment; filename=\""
  IN IF /\ HasPrefix(disposition, prefix)
        /\ Len(disposition) >= Len(prefix) + 2
        /\ SubSeq(disposition, Len(disposition), Len(disposition)) = "\""
     THEN SubSeq(disposition, Len(prefix) + 1, Len(disposition) - 1)
     ELSE ""

\* the parts inside a multipart/related part: the document, an attachment,
\* and a part with another disposition
Dispositions == {"", "attachment; filename=\"f\"", "inline"}
InnerParts ==
  {[disposition |-> "", body |-> "{}"],
   [disposition |-> "attachment; filename=\"f\"", body |-> "x"],
   [disposition |-> "inline", body |-> "x"]}

\* the top-level parts of a response
ContentTypes ==
  {"application/json", "text/plain", "multipart/related",
   "multipart/related; boundary=\"b\""}
TopParts ==
  [contentType : {"application/json"}, body : {"{}", "x"}, parts : {<<>>}]
    \cup [contentType : {"text/plain"}, body : {"x"}, parts : {<<>>}]
    \cup [contentType : {"multipart/related"}, body : {""}, parts : {<<>>}]
    \cup [contentType : {"multipart/related; boundary=\"b\""}, body : {""},
          parts : UNION {[1..n -> InnerParts] : n \in 0..MaxParts}]

\* the responses GetDocumentComplete hands to NewCompleteDoc
DocResponses ==
  [contentType : {"multipart/mixed; boundary=\"a\"", "application/json"},
   parts : UNION {[1..n -> TopParts] : n \in 0..MaxRevs}]

\* json.Decoder.Decode accepts the body
IsJSON(body) == body = "{}"

\* a document being decoded: the error so far, the bodies decoded into Data,
\* and the attachments stored
EmptyDoc == [err |-> "", decoded |-> <<>>, attachments |-> <<>>]
Failed(d, err) == [d EXCEPT !.err = err]

\* CompleteDoc.parseDocument
ParseDocument(d, body) ==
  IF IsJSON(body) THEN [d EXCEPT !.decoded = Append(@, body)]
  ELSE Failed(d, "invalid json")

\* CompleteDoc.parseStageTwo
RECURSIVE ParseStageTwo(_, _)
ParseStageTwo(d, parts) ==
  IF parts = <<>> \/ d.err # "" THEN d
  ELSE LET part == Head(parts)
       IN IF part.disposition = ""
          THEN ParseStageTwo(ParseDocument(d, part.body), Tail(parts))
          ELSE IF HasPrefix(part.disposition, "attachment")
          THEN ParseStageTwo(
                 [d EXCEPT !.attachments =
                    Append(@, [filename |-> FilenameOf(part.disposition),
                               data |-> part.body])],
                 Tail(parts))
          ELSE Failed(d, "invalid content disposition")

\* every top-level part taken for the document
ParseStageOneAllJSON(d, parts) ==
  IF parts = <<>> THEN d
  ELSE [d EXCEPT !.decoded = [i \in DOMAIN parts |-> parts[i].body]]

\* CompleteDoc.parseStageOne
RECURSIVE ParseStageOne(_, _)
ParseStageOne(d, parts) ==
  IF parts = <<>> \/ d.err # "" THEN d
  ELSE LET part == Head(parts)
       IN IF part.contentType = "application/json"
          THEN ParseStageOne(ParseDocument(d, part.body), Tail(parts))
          ELSE IF HasPrefix(part.contentType, "multipart/related")
          THEN IF ~HasBoundary(part.contentType, "multipart/related")
               THEN Failed(d, "no multipart related")
               ELSE ParseStageOne(ParseStageTwo(d, part.parts), Tail(parts))
          ELSE Failed(d, "invalid content type")

\* NewCompleteDoc
NewCompleteDoc(resp) ==
  IF ~HasBoundary(resp.contentType, "multipart/mixed")
  THEN Failed(EmptyDoc, "no multipart related")
  ELSE ParseStageOne(EmptyDoc, resp.parts)

\* what GetDocumentComplete can return for a document of the source: without
\* changed attachments the document alone, with them one attachment part
\* whose header has a file name or none and whose entry is there or not
FetchedDocs(kind) ==
  IF ~kind.att
  THEN {[Data |-> [has |-> FALSE, atts |-> [f \in {} |-> FollowsEntry]],
         attachments |-> <<>>]}
  ELSE [Data : {[has |-> TRUE, atts |-> [f \in names |-> FollowsEntry]] :
                  names \in {{}, {"f"}}},
        attachments : {<<[filename |-> name, data |-> "x"]>> :
                         name \in {"", "f"}}]

\* ReplicateChanges: "Are They Big Enough?"
BigEnough(kind) == kind.size > MB10

\* LocateChangedDocuments: r.target.RevDiff and the empty-diff retry; on a
\* non-empty diff ReplicateChanges starts with an empty stack
RevDiff ==
  /\ pc = "revs_diff"
  /\ \E ok \in Outcomes :
       /\ reqs' = Append(reqs, Req("target", "RevDiff", ok, <<>>))
       /\ IF ~ok
          THEN /\ Fail("locate changed documents", "rev diff request failed")
               /\ UNCHANGED <<currentHistory, diffResp, lastSeq, todo, stack>>
          ELSE LET resp == RevsDiffOf(DOMAIN BuildDiff(NoDiff, FeedResults(changes.Results)))
               IN /\ currentHistory' =
                       [currentHistory EXCEPT !.MissingChecked = @ + Cardinality(resp)]
                  /\ ret' = ret
                  /\ IF resp = {}
                     THEN /\ pc' = "changes"
                          /\ UNCHANGED <<diffResp, lastSeq, todo, stack>>
                     ELSE /\ pc' = "fetch"
                          /\ diffResp' = resp
                          /\ lastSeq' = changes.LastSeq
                          /\ todo' = resp
                          /\ stack' = <<>>
  /\ UNCHANGED <<jobVars, ctxVars, callVars, peerVars, replicationID, sourceLastSeq, sourceRepLog,
                 targetRepLog, fetchedLog, changes, doc, prevRet, runs, polls>>

\* ReplicateChanges: r.source.GetDocumentComplete for the next key of the
\* diff map (Go ranges over a map in any order) and the routing of the document
GetDocumentComplete ==
  /\ pc = "fetch"
  /\ \E d \in todo, ok \in Outcomes :
     \E fetched \in FetchedDocs(srcDocs[d]) :
       /\ reqs' = Append(reqs, Req("source", "GetDocumentComplete", ok, <<d>>))
       /\ IF ~ok
          THEN /\ Fail("replicate changes", "document request failed")
               /\ UNCHANGED <<currentHistory, todo, doc, stack>>
          ELSE /\ currentHistory' = [currentHistory EXCEPT !.DocsRead = @ + 1]
               /\ todo' = todo \ {d}
               /\ doc' = d
               /\ IF HasChangedAttachments(fetched)
                  THEN IF BigEnough(srcDocs[d])
                       THEN pc' = "upload" /\ ret' = ret /\ stack' = stack
                       ELSE IF InlineAttachments(fetched).err = ""
                            THEN /\ stack' = Append(stack, d)
                                 /\ pc' = AfterDoc(stack', todo')
                                 /\ ret' = ret
                            ELSE /\ Fail("replicate changes",
                                         InlineAttachments(fetched).err)
                                 /\ stack' = stack
                  ELSE /\ stack' = stack
                       /\ pc' = AfterDoc(stack, todo')
                       /\ ret' = ret
  /\ UNCHANGED <<jobVars, ctxVars, callVars, peerVars, replicationID, sourceLastSeq, diffResp,
                 sourceRepLog, targetRepLog, fetchedLog, changes, lastSeq,
                 prevRet, runs, polls>>

\* ReplicateChanges: r.target.UploadDocumentWithAttachments
UploadDocumentWithAttachments ==
  /\ pc = "upload"
  /\ \E ok \in Outcomes :
       /\ reqs' = Append(reqs, Req("target", "UploadDocumentWithAttachments", ok, <<doc>>))
       /\ IF ~ok
          THEN /\ currentHistory' = [currentHistory EXCEPT !.DocWriteFailures = @ + 1]
               /\ Fail("replicate changes", "upload failed")
               /\ tgtDocs' = tgtDocs
          ELSE /\ currentHistory' = [currentHistory EXCEPT !.DocsWritten = @ + 1]
               /\ tgtDocs' = tgtDocs \cup {doc}
               /\ pc' = AfterDoc(stack, todo)
               /\ ret' = ret
  /\ UNCHANGED <<jobVars, ctxVars, callVars, srcExists, srcDocs, srcLog, tgtExists, tgtLog,
                 replicationID, sourceLastSeq, diffResp, sourceRepLog,
                 targetRepLog, localVars, prevRet, runs, polls>>

\* a failed BulkDocs counted as one failure whatever the stack holds
BulkFailedByOne(h, stk) == [h EXCEPT !.DocWriteFailures = @ + 1]

\* replicateChangesBulk: the history record after a failed BulkDocs
BulkFailed(h, stk) == [h EXCEPT !.DocWriteFailures = @ + Len(stk)]

\* replicateChangesBulk: the history record after a successful BulkDocs
BulkWritten(h, stk) == [h EXCEPT !.DocsWritten = @ + Len(stk)]

\* replicateChangesBulk: r.target.BulkDocs, called in the loop ("bulk") or
\* after it ("bulk_rest")
BulkDocs ==
  /\ pc \in {"bulk", "bulk_rest"}
  /\ \E ok \in Outcomes :
       /\ reqs' = Append(reqs, Req("target", "BulkDocs", ok, stack))
       /\ IF ~ok
          THEN /\ currentHistory' = BulkFailed(currentHistory, stack)
               /\ Fail("replicate changes", "bulk docs failed")
               /\ tgtDocs' = tgtDocs
          ELSE /\ currentHistory' = BulkWritten(currentHistory, stack)
               /\ tgtDocs' = tgtDocs \cup {stack[i] : i \in 1..Len(stack)}
               /\ pc' = IF pc = "bulk" THEN "commit" ELSE "commit_rest"
               /\ ret' = ret
  /\ UNCHANGED <<jobVars, ctxVars, callVars, srcExists, srcDocs, srcLog, tgtExists, tgtLog,
                 replicationID, sourceLastSeq, diffResp, sourceRepLog,
                 targetRepLog, localVars, prevRet, runs, polls>>

\* replicateChangesBulk: r.target.EnsureFullCommit; the caller's stack is
\* what it was before the call
EnsureFullCommit ==
  /\ pc \in {"commit", "commit_rest"}
  /\ \E ok \in Outcomes :
       /\ reqs' = Append(reqs, Req("target", "EnsureFullCommit", ok, <<>>))
       /\ IF ~ok
          THEN Fail("replicate changes", "ensure full commit failed")
          ELSE /\ pc' = IF pc = "commit" THEN NextIter(stack, todo) ELSE "finalize"
               /\ ret' = ret
  /\ UNCHANGED <<jobVars, ctxVars, callVars, peerVars, fieldVars, localVars, prevRet, runs, polls>>

\* a checkpoint recorded as soon as a document was read
CheckpointDueOnRead(h) == h.DocsRead > 0

\* ReplicateChanges: is a checkpoint recorded for this history record
CheckpointDue(h) == h.DocsWritten > 0

\* ReplicateChanges: the history record is finalized after the loop
Finalize ==
  /\ pc = "finalize"
  /\ currentHistory' = [currentHistory EXCEPT !.SessionID = replicationID,
                                              !.EndLastSeq = lastSeq]
  /\ pc' = IF CheckpointDue(currentHistory') THEN "record_source" ELSE "return"
  /\ UNCHANGED <<jobVars, ctxVars, callVars, peerVars, replicationID, sourceLastSeq, diffResp,
                 sourceRepLog, targetRepLog, localVars, reqs, ret, prevRet,
                 runs, polls>>

\* the session id of the log left as it was fetched
CheckpointLogKeepSession(repLog) ==
  [repLog EXCEPT !.ID = replicationID,
                 !.ReplicationIDVersion = 3,
                 !.SourceLastSeq = lastSeq,
                 !.History = Append(targetRepLog.History, currentHistory)]

\* recordReplicationCheckpoint: the fields set on repLog before it is sent
CheckpointLog(repLog) ==
  [repLog EXCEPT !.ID = replicationID,
                 !.ReplicationIDVersion = 3,
                 !.SessionID = replicationID,
                 !.SourceLastSeq = lastSeq,
                 !.History = Append(targetRepLog.History, currentHistory)]

\* recordReplicationCheckpoint: the client the log is sent with, for the call
\* made with the source's log ("source") and with the target's log ("target")
CheckpointClient(which) == "source"

\* a peer stores the replication log under _local/<id>
StoreLog(peer, log) ==
  IF peer = "source"
  THEN srcLog' = log /\ tgtLog' = tgtLog
  ELSE tgtLog' = log /\ srcLog' = srcLog

\* the error of the first checkpoint write not looked at
RecordSourceLogUnchecked ==
  /\ pc = "record_source"
  /\ sourceRepLog' = CheckpointLog(sourceRepLog)
  /\ \E ok \in Outcomes :
       /\ reqs' = Append(reqs, Req(CheckpointClient("source"), "RecordReplicationCheckpoint", ok, <<>>))
       /\ IF ok THEN StoreLog(CheckpointClient("source"), sourceRepLog')
               ELSE UNCHANGED <<srcLog, tgtLog>>
       /\ pc' = "record_target"
       /\ ret' = ret
  /\ UNCHANGED <<jobVars, ctxVars, callVars, srcExists, srcDocs, tgtExists, tgtDocs, replicationID,
                 sourceLastSeq, diffResp, targetRepLog, currentHistory,
                 localVars, prevRet, runs, polls>>

\* ReplicateChanges: recordReplicationCheckpoint(ctx, r.sourceRepLog, lastSeq)
RecordSourceLog ==
  /\ pc = "record_source"
  /\ sourceRepLog' = CheckpointLog(sourceRepLog)
  /\ \E ok \in Outcomes :
       /\ reqs' = Append(reqs, Req(CheckpointClient("source"), "RecordReplicationCheckpoint", ok, <<>>))
       /\ IF ~ok
          THEN /\ Fail("replicate changes", "checkpoint failed")
               /\ UNCHANGED <<srcLog, tgtLog>>
          ELSE /\ StoreLog(CheckpointClient("source"), sourceRepLog')
               /\ pc' = "record_target"
               /\ ret' = ret
  /\ UNCHANGED <<jobVars, ctxVars, callVars, srcExists, srcDocs, tgtExists, tgtDocs, replicationID,
                 sourceLastSeq, diffResp, targetRepLog, currentHistory,
                 localVars, prevRet, runs, polls>>

\* ReplicateChanges: recordReplicationCheckpoint(ctx, r.targetRepLog, lastSeq)
RecordTargetLog ==
  /\ pc = "record_target"
  /\ targetRepLog' = CheckpointLog(targetRepLog)
  /\ \E ok \in Outcomes :
       /\ reqs' = Append(reqs, Req(CheckpointClient("target"), "RecordReplicationCheckpoint", ok, <<>>))
       /\ IF ~ok
          THEN /\ Fail("replicate changes", "checkpoint failed")
               /\ UNCHANGED <<srcLog, tgtLog>>
          ELSE /\ StoreLog(CheckpointClient("target"), targetRepLog')
               /\ pc' = "return"
               /\ ret' = ret
  /\ UNCHANGED <<jobVars, ctxVars, callVars, srcExists, srcDocs, tgtExists, tgtDocs, replicationID,
                 sourceLastSeq, diffResp, sourceRepLog, currentHistory,
                 localVars, prevRet, runs, polls>>

\* ReplicateChanges drops the history record and Run returns nil
Return ==
  /\ pc = "return"
  /\ currentHistory' = Nil
  /\ pc' = "idle"
  /\ ret' = OkRet
  /\ UNCHANGED <<jobVars, ctxVars, callVars, peerVars, replicationID, sourceLastSeq, diffResp,
                 sourceRepLog, targetRepLog, localVars, reqs, prevRet, runs,
                 polls>>

Next ==
  \/ RunStart \/ Cancel
  \/ SourceCheck \/ TargetCheck \/ TargetCreate
  \/ SourceInfo \/ TargetInfo
  \/ GetSourceLog \/ GetTargetLog
  \/ Changes \/ RevDiff
  \/ GetDocumentComplete \/ UploadDocumentWithAttachments
  \/ BulkDocs \/ EnsureFullCommit
  \/ Finalize \/ RecordSourceLog \/ RecordTargetLog \/ Return

Spec == Init /\ [][Next]_vars

\* ------------------------------------------- FindCommonAncestry on its own
\* the replication logs a peer can hold under _local/<id>: session ids and
\* recorded sequences are required fields, source_last_seq may be empty
Sessions == {"s1", "s2"}
RecordedSeqs == {"1", "2"}
LastSeqs == {"", "3"}

HistoryEntry(s, q) == [NewHistory(s, NoVersion) EXCEPT !.RecordedSeq = q]

Histories ==
  SeqsUpTo({HistoryEntry(s, q) : s \in Sessions, q \in RecordedSeqs}, MaxHist)

StoredLogs ==
  {[ID |-> "id-FF", SessionID |-> s, SourceLastSeq |-> q,
    ReplicationIDVersion |-> 3, History |-> h] :
     s \in Sessions, q \in LastSeqs, h \in Histories}

\* Run is about to enter FindCommonAncestry; each peer holds any log or none
CmpInit ==
  /\ createTarget = FALSE
  /\ continuous = FALSE
  /\ srcExists = TRUE
  /\ srcDocs = <<>>
  /\ srcLog \in StoredLogs \cup {Nil}
  /\ tgtExists = TRUE
  /\ tgtDocs = {}
  /\ tgtLog \in StoredLogs \cup {Nil}
  /\ replicationID = ""
  /\ sourceLastSeq = ""
  /\ diffResp = {}
  /\ sourceRepLog = Nil
  /\ targetRepLog = Nil
  /\ currentHistory = Nil
  /\ pc = "source_log"
  /\ fetchedLog = Nil
  /\ changes = Nil
  /\ lastSeq = ""
  /\ todo = {}
  /\ doc = 0
  /\ stack = <<>>
  /\ reqs = <<>>
  /\ ret = NoRet
  /\ prevRet = NoRet
  /\ runs = 1
  /\ polls = 0
  /\ cancelled = FALSE
  /\ cancelAt = 0
  /\ call = Nil
  /\ result = Nil

CmpNext == GetSourceLog \/ GetTargetLog

CmpSpec == CmpInit /\ [][CmpNext]_vars

\* ------------------------------------- the functions called on their own
\* names, URLs and header maps of jobs: with and without the separator
Names == {"a", "a|a"}
SourceURLs == {"", "a", "a|a"}
TargetURLs == {"a", "b"}
SourceHeaders ==
  {[k \in {} |-> ""], [k \in {"a"} |-> "a"], [k \in {"a"} |-> "|"],
   [k \in {"a", "b"} |-> "a"]}
TargetHeaders == {[k \in {} |-> ""], [k \in {"a"} |-> "a"]}

\* a name and a job: the arguments of Job.GenerateReplicationID
NamedJobs ==
  [name : Names,
   job : [Source : [URL : SourceURLs, Headers : SourceHeaders],
          Target : [URL : TargetURLs, Headers : TargetHeaders],
          CreateTarget : BOOLEAN, Continuous : BOOLEAN]]

\* GenerateReplicationID is called for a job and for a second job
IdCalls == [fn : {"GenerateReplicationID"}, a : NamedJobs, b : NamedJobs]

\* what a peer can answer: no answer at all (the round trip failed), or a
\* status code with a body that is JSON or not and whose ok field is true or
\* not
StatusCodes == {200, 201, 202, 301, 401, 404, 412, 500}
Responses ==
  [failed : BOOLEAN, code : StatusCodes, json : BOOLEAN, ok : BOOLEAN]

\* Check, Create, Info or GetReplicationLog is called and gets a response
ClientCalls ==
  [fn : {"Check", "Create", "Info", "GetReplicationLog"}, resp : Responses]

\* InlineAttachments is called on a fetched document
InlineCalls == [fn : {"InlineAttachments"}, doc : CompleteDocs]

\* NewCompleteDoc is called on the response of a fetch
ParseCalls == [fn : {"NewCompleteDoc"}, resp : DocResponses]

\* the documents a stack holds: their data and the size they report
StackDocs ==
  [Data : {[has |-> FALSE, atts |-> [f \in {} |-> FollowsEntry]],
           [has |-> TRUE, atts |-> [f \in {"f"} |-> FollowsEntry]]},
   size : DocSizes]

\* client.Stack
Stacks == UNION {[1..n -> StackDocs] : n \in 0..MaxDocs}

\* Size or Reader is called on a stack
StackCalls == [fn : {"Size", "Reader"}, stack : Stacks]

\* the number of documents taken for their size
SizeCountsDocs(s) == Len(s)

\* Stack.Size
RECURSIVE Size(_)
Size(s) == IF s = <<>> THEN 0 ELSE Head(s).size + Size(Tail(s))

\* Stack.Reader: the body that is encoded; docs is a nil slice, encoded as
\* null, when nothing was appended to it
Reader(s) ==
  [docs |-> [i \in DOMAIN s |-> s[i].Data],
   docsIsNull |-> (s = <<>>),
   new_edits |-> FALSE]

Calls ==
  IdCalls \cup ClientCalls \cup InlineCalls \cup ParseCalls \cup StackCalls

\* Client.Check: the error returned for a response ("" for nil)
ClientCheck(resp) ==
  IF resp.failed THEN "round trip failed"
  ELSE IF resp.code = 200 THEN ""
  ELSE IF resp.code = 404 THEN ErrNotFound
  ELSE "check request failed"

\* Client.Create: the status code is not looked at
ClientCreate(resp) ==
  IF resp.failed THEN "round trip failed"
  ELSE IF ~resp.json THEN "decode failed"
  ELSE IF ~resp.ok THEN ErrFailed
  ELSE ""

\* a missing database reported like any other failure
ClientInfoNoNotFound(resp) ==
  IF resp.failed THEN "round trip failed"
  ELSE IF resp.code # 200 THEN "info request failed"
  ELSE IF ~resp.json THEN "decode failed"
  ELSE ""

\* Client.Info
ClientInfo(resp) ==
  IF resp.failed THEN "round trip failed"
  ELSE IF resp.code = 404 THEN ErrNotFound
  ELSE IF resp.code # 200 THEN "info request failed"
  ELSE IF ~resp.json THEN "decode failed"
  ELSE ""

\* Client.GetReplicationLog
ClientGetReplicationLog(resp) ==
  IF resp.failed THEN "round trip failed"
  ELSE IF resp.code = 404 THEN ErrNotFound
  ELSE IF resp.code # 200 THEN "replication log request failed"
  ELSE IF ~resp.json THEN "decode failed"
  ELSE ""

\* no Run: one function call is about to be made
CallInit ==
  /\ createTarget = FALSE
  /\ continuous = FALSE
  /\ srcExists = TRUE
  /\ srcDocs = <<>>
  /\ srcLog = Nil
  /\ tgtExists = TRUE
  /\ tgtDocs = {}
  /\ tgtLog = Nil
  /\ replicationID = ""
  /\ sourceLastSeq = ""
  /\ diffResp = {}
  /\ sourceRepLog = Nil
  /\ targetRepLog = Nil
  /\ currentHistory = Nil
  /\ pc = "call"
  /\ fetchedLog = Nil
  /\ changes = Nil
  /\ lastSeq = ""
  /\ todo = {}
  /\ doc = 0
  /\ stack = <<>>
  /\ reqs = <<>>
  /\ ret = NoRet
  /\ prevRet = NoRet
  /\ runs = 0
  /\ polls = 0
  /\ cancelled = FALSE
  /\ cancelAt = 0
  /\ call \in Calls
  /\ result = Nil

\* everything but the result of the call
callFrame ==
  <<jobVars, ctxVars, peerVars, fieldVars, localVars, pc, reqs, ret, prevRet,
    runs, polls, call>>

\* Job.GenerateReplicationID for both jobs, each map of headers ranged over
\* in some order
CallGenerateReplicationID ==
  /\ call.fn = "GenerateReplicationID"
  /\ result = Nil
  /\ \E soa \in Orders(DOMAIN call.a.job.Source.Headers),
        toa \in Orders(DOMAIN call.a.job.Target.Headers),
        sob \in Orders(DOMAIN call.b.job.Source.Headers),
        tob \in Orders(DOMAIN call.b.job.Target.Headers) :
       result' =
         [a |-> JobGenerateReplicationID(call.a.name, call.a.job, soa, toa),
          b |-> JobGenerateReplicationID(call.b.name, call.b.job, sob, tob),
          bytesA |-> HashedBytes(call.a.name, call.a.job, soa, toa),
          bytesB |-> HashedBytes(call.b.name, call.b.job, sob, tob),
          orderA |-> soa, orderB |-> sob]
  /\ UNCHANGED callFrame

\* Client.Check on the response of the call
CallCheck ==
  /\ call.fn = "Check"
  /\ result = Nil
  /\ result' = [err |-> ClientCheck(call.resp)]
  /\ UNCHANGED callFrame

\* Client.Create on the response of the call
CallCreate ==
  /\ call.fn = "Create"
  /\ result = Nil
  /\ result' = [err |-> ClientCreate(call.resp)]
  /\ UNCHANGED callFrame

\* Client.Info on the response of the call
CallInfo ==
  /\ call.fn = "Info"
  /\ result = Nil
  /\ result' = [err |-> ClientInfo(call.resp)]
  /\ UNCHANGED callFrame

\* Client.GetReplicationLog on the response of the call
CallGetReplicationLog ==
  /\ call.fn = "GetReplicationLog"
  /\ result = Nil
  /\ result' = [err |-> ClientGetReplicationLog(call.resp)]
  /\ UNCHANGED callFrame

\* CompleteDoc.InlineAttachments on the document of the call
CallInlineAttachments ==
  /\ call.fn = "InlineAttachments"
  /\ result = Nil
  /\ result' = InlineAttachments(call.doc)
  /\ UNCHANGED callFrame

\* NewCompleteDoc on the response of the call
CallNewCompleteDoc ==
  /\ call.fn = "NewCompleteDoc"
  /\ result = Nil
  /\ result' = NewCompleteDoc(call.resp)
  /\ UNCHANGED callFrame

\* Stack.Size on the stack of the call
CallSize ==
  /\ call.fn = "Size"
  /\ result = Nil
  /\ result' = [size |-> Size(call.stack)]
  /\ UNCHANGED callFrame

\* Stack.Reader on the stack of the call
CallReader ==
  /\ call.fn = "Reader"
  /\ result = Nil
  /\ result' = [body |-> Reader(call.stack)]
  /\ UNCHANGED callFrame

CallNext ==
  \/ CallGenerateReplicationID
  \/ CallSize \/ CallReader
  \/ CallInlineAttachments
  \/ CallNewCompleteDoc
  \/ CallCheck \/ CallCreate \/ CallInfo \/ CallGetReplicationLog

CallSpec == CallInit /\ [][CallNext]_vars

\* ------------------------------------------------ reading the request log
IsCheckpoint(r) == r.op = "RecordReplicationCheckpoint"
IsWrite(r) == r.op \in {"BulkDocs", "UploadDocumentWithAttachments"}
IsFetch(r) == r.op = "GetDocumentComplete"
IsFence(r) == r.op = "EnsureFullCommit"
DocsOf(r) == {r.docs[k] : k \in 1..Len(r.docs)}
Count(P(_)) == Cardinality({i \in 1..Len(reqs) : P(reqs[i])})
LastReq == reqs[Len(reqs)]

\* the big-document threshold the specification states: 10 MiB
TenMiB == 10 * 1024 * 1024

\* phase 5 is past its loop and residual flush
Phase5Finished == pc \in {"record_source", "record_target", "return"}

\* ------------------------------------------------------------------ C1
CheckpointTo(peer) ==
  Cardinality({i \in 1..Len(reqs) : IsCheckpoint(reqs[i]) /\ reqs[i].peer = peer})

\* C1: when phase 5 has finished with at least one document written and
\* returns, one checkpoint write was issued to the source peer and one to the
\* target peer.
C1_CheckpointOnBothPeers ==
  (pc = "return" /\ currentHistory.DocsWritten > 0)
    => (CheckpointTo("source") = 1 /\ CheckpointTo("target") = 1)

\* ------------------------------------------------------------------ C2
WrittenBy(d, op) ==
  \E i \in 1..Len(reqs) : reqs[i].op = op /\ reqs[i].ok /\ d \in DocsOf(reqs[i])

\* C2: when Run has returned nil, every document id of the diff map was
\* written to the target by a direct upload or as a member of a bulk upload,
\* documents without changed attachments included.
C2_EveryDiffDocWritten ==
  (pc = "idle" /\ ret.status = "ok")
    => \A d \in diffResp :
         /\ WrittenBy(d, "UploadDocumentWithAttachments") \/ WrittenBy(d, "BulkDocs")
         /\ d \in tgtDocs

\* ------------------------------------------------------------------ C3
\* C3: in a Run that follows a successful Run of the same job (the source
\* being unchanged), no document is fetched, no document is written and
\* docs_written stays 0.
C3_NoRetransferAfterSuccess ==
  (runs >= 2 /\ prevRet.status = "ok")
    => /\ \A i \in 1..Len(reqs) : ~IsFetch(reqs[i]) /\ ~IsWrite(reqs[i])
       /\ currentHistory # Nil => currentHistory.DocsWritten = 0

\* ------------------------------------------------------------------ C4
\* C4: in a one-shot run, when the changes batch is non-empty and the target
\* reports an empty revision diff, phase 4 ends the run instead of asking for
\* the changes again with the same since cursor.
C4_EmptyDiffEndsOneShotRun ==
  [][(/\ pc = "revs_diff"
      /\ ~continuous
      /\ reqs' # reqs
      /\ reqs'[Len(reqs')].ok
      /\ RevsDiffOf(changes.Results) = {}) => pc' = "idle"]_vars

\* ------------------------------------------------------------------ C5
\* C5: every checkpoint write comes after a successful commit fence that is
\* later than every document write (bulk or direct) of the run.
C5_FenceBeforeCheckpoint ==
  \A i \in 1..Len(reqs) :
    IsCheckpoint(reqs[i]) =>
      \A j \in 1..(i - 1) :
        (IsWrite(reqs[j]) /\ reqs[j].ok) =>
          \E k \in (j + 1)..(i - 1) : IsFence(reqs[k]) /\ reqs[k].ok

\* ------------------------------------------------------------------ C6
\* C6: the threshold is 10485760 bytes: a fetched document with changed
\* attachments goes to the direct upload iff its size is greater than
\* 10485760, and the stack is flushed inside the loop iff its size is greater
\* than 10485760.
C6_ThresholdIsTenMiB ==
  /\ TenMiB = 10485760
  /\ pc = "upload" => srcDocs[doc].size > TenMiB
  /\ pc = "bulk" => StackSize(stack) > TenMiB
  /\ (pc # "idle" /\ Len(reqs) > 0 /\ IsFetch(LastReq) /\ srcDocs[doc].att
        /\ srcDocs[doc].size > TenMiB) => pc = "upload"
  /\ (pc \in {"fetch", "bulk_rest", "finalize"} /\ Len(reqs) > 0
        /\ (IsFetch(LastReq) \/ LastReq.op = "UploadDocumentWithAttachments"))
       => StackSize(stack) <= TenMiB

\* ------------------------------------------------------------------ C7
BulksWith(d) ==
  Cardinality({i \in 1..Len(reqs) :
                 reqs[i].op = "BulkDocs" /\ reqs[i].ok /\ d \in DocsOf(reqs[i])})

\* C7: a flush inside the loop (bulk upload and commit fence succeeded)
\* leaves the stack empty, and no document is contained in more than one bulk
\* upload of a run.
C7_FlushEmptiesStack ==
  [][/\ (pc = "commit" /\ pc' # "idle" /\ reqs' # reqs) => stack' = <<>>
     /\ \A d \in 1..Len(srcDocs) : BulksWith(d)' <= 1]_vars

\* ------------------------------------------------------------------ C8
RECURSIVE TotalSize(_)
\* the sizes of the documents of a set of ids, added up
TotalSize(ids) ==
  IF ids = {} THEN 0
  ELSE LET d == CHOOSE x \in ids : TRUE
       IN srcDocs[d].size + TotalSize(ids \ {d})

\* C8: when phase 5 has finished for a diff map of n documents the history
\* record has docs_read = n, docs_written = n, doc_write_failures = 0; in
\* every state docs_written <= docs_read; and documents that together stay
\* under the threshold take exactly one bulk upload and one commit fence.
C8_CountersMatchDiffMap ==
  /\ Phase5Finished =>
       /\ currentHistory.DocsRead = Cardinality(diffResp)
       /\ currentHistory.DocsWritten = Cardinality(diffResp)
       /\ currentHistory.DocWriteFailures = 0
  /\ currentHistory # Nil => currentHistory.DocsWritten <= currentHistory.DocsRead
  /\ (Phase5Finished /\ TotalSize(diffResp) < TenMiB)
       => (Count(LAMBDA r : r.op = "BulkDocs") = 1 /\ Count(IsFence) = 1)

\* ------------------------------------------------------------------ C9
\* C9: a run issues a checkpoint write only when it has written a document:
\* with docs_written = 0, or when the run ends with replication completed, the
\* request log holds no checkpoint write.
C9_NoCheckpointWithoutWrite ==
  (\/ \A i \in 1..Len(reqs) : ~(IsWrite(reqs[i]) /\ reqs[i].ok)
   \/ (currentHistory # Nil /\ currentHistory.DocsWritten = 0)
   \/ ret.cause = ErrReplicationCompleted)
    => Count(IsCheckpoint) = 0

\* phase 5 ended after reading documents and writing none
C9_Witness ==
  /\ pc = "return"
  /\ currentHistory.DocsRead > 0
  /\ currentHistory.DocsWritten = 0
  /\ Count(IsCheckpoint) = 0

\* ------------------------------------------------------------------ C10
FailedWriteStep ==
  /\ Len(reqs') = Len(reqs) + 1
  /\ IsWrite(reqs'[Len(reqs')])
  /\ ~reqs'[Len(reqs')].ok

\* C10: a failed document write adds the number of stack documents (bulk) or
\* 1 (direct) to doc_write_failures, leaves docs_written as it was, makes Run
\* return an error, and is the last request of its run, so no checkpoint
\* write follows it.
C10_FailedWriteAborts ==
  [][/\ FailedWriteStep =>
          /\ currentHistory'.DocWriteFailures =
               currentHistory.DocWriteFailures
                 + (IF pc \in {"bulk", "bulk_rest"} THEN Len(stack) ELSE 1)
          /\ currentHistory'.DocsWritten = currentHistory.DocsWritten
          /\ pc' = "idle"
          /\ ret'.status = "error"
     /\ \A i \in 1..Len(reqs') :
          (IsWrite(reqs'[i]) /\ ~reqs'[i].ok) => i = Len(reqs')]_vars

\* a bulk upload of two accumulated documents failed
C10_Witness ==
  /\ pc = "idle"
  /\ ret.status = "error"
  /\ Len(reqs) > 0
  /\ LastReq.op = "BulkDocs"
  /\ ~LastReq.ok
  /\ Len(LastReq.docs) = 2
  /\ currentHistory.DocWriteFailures = 2

\* ------------------------------------------------------------------ C11
\* the peers on which a checkpoint write of this run succeeded
Holders ==
  {p \in {"source", "target"} :
     \E i \in 1..Len(reqs) :
       IsCheckpoint(reqs[i]) /\ reqs[i].ok /\ reqs[i].peer = p}

\* C11 as stated: when the context was cancelled during a run and a request
\* was issued afterwards, Run returns an error and this run's checkpoint is
\* held by no peer or by both peers, never by exactly one.
C11_NoPartialCheckpoint ==
  (cancelled /\ pc = "idle" /\ Len(reqs) > cancelAt)
    => (ret.status = "error" /\ Holders \in {{}, {"source", "target"}})

\* C11: when the context is cancelled during a run, every request issued
\* afterwards fails, the first of them is the last request of the run and
\* makes Run return an error, and the checkpoint is held only by peers whose
\* checkpoint write succeeded before the cancellation: by none when the
\* context was cancelled before the first checkpoint write.
C11_CancelStopsRun ==
  cancelled =>
    /\ Len(reqs) <= cancelAt + 1
    /\ Len(reqs) = cancelAt + 1 =>
         (~LastReq.ok /\ pc = "idle" /\ ret.status = "error")
    /\ (\A i \in 1..cancelAt : ~IsCheckpoint(reqs[i])) => Holders = {}

\* the context was cancelled between the two checkpoint writes
C11_Witness ==
  /\ cancelled
  /\ pc = "idle"
  /\ ret.status = "error"
  /\ cancelAt > 0
  /\ Len(reqs) = cancelAt + 1
  /\ IsCheckpoint(reqs[cancelAt]) /\ reqs[cancelAt].ok
  /\ IsCheckpoint(LastReq)
  /\ Cardinality(Holders) = 1

\* ------------------------------------------------------------------ C12
IsCreate(r) == r.op = "Create"

\* C12: VerifyPeers checks the source first and fails without a request to
\* the target when that check fails; with the target check answering 200 it
\* succeeds; the target is created iff the source exists, the target check
\* answered not-found and create_target is set; not-found without
\* create_target returns the not-found error, any other error of the target
\* check is returned and no Create is issued; the source is never created.
C12_VerifyPeersTable ==
  /\ \A i \in 1..Len(reqs) :
       IsCreate(reqs[i]) =>
         /\ reqs[i].peer = "target"
         /\ i = 3
         /\ reqs[1].ok
         /\ reqs[2].st = "notfound"
         /\ createTarget
  /\ Len(reqs) >= 1 =>
       /\ reqs[1].peer = "source" /\ reqs[1].op = "Check"
       /\ ~reqs[1].ok =>
            /\ Len(reqs) = 1
            /\ pc = "idle"
            /\ ret = ErrRet("verify peers", CheckErr(reqs[1].st))
  /\ Len(reqs) >= 2 =>
       /\ reqs[2].peer = "target" /\ reqs[2].op = "Check"
       /\ reqs[2].st = "ok" =>
            /\ Len(reqs) = 2 => (pc = "source_info" /\ ret.status = "none")
            /\ Len(reqs) >= 3 => reqs[3].op = "Info"
       /\ (reqs[2].st = "notfound" /\ createTarget) =>
            /\ Len(reqs) = 2 => (pc = "create_target" /\ ret.status = "none")
            /\ Len(reqs) >= 3 => IsCreate(reqs[3])
       /\ (reqs[2].st = "notfound" /\ ~createTarget) =>
            /\ Len(reqs) = 2
            /\ pc = "idle"
            /\ ret = ErrRet("verify peers", ErrNotFound)
       /\ reqs[2].st = "fail" =>
            /\ Len(reqs) = 2
            /\ pc = "idle"
            /\ ret = ErrRet("verify peers", "check request failed")

\* the target answered not-found, was created and the run went on
C12_Witness ==
  /\ Len(reqs) >= 4
  /\ reqs[2].st = "notfound"
  /\ IsCreate(reqs[3]) /\ reqs[3].ok
  /\ tgtExists

\* ------------------------------------------------------------------ C13
\* the phase of Run a request belongs to
PhaseOf(r) ==
  IF r.op \in {"Check", "Create"} THEN 1
  ELSE IF r.op = "Info" THEN 2
  ELSE IF r.op = "GetReplicationLog" THEN 3
  ELSE IF r.op \in {"Changes", "RevDiff"} THEN 4
  ELSE 5

\* the words Run puts in front of the error of a phase
PhaseName(k) ==
  IF k = 1 THEN "verify peers"
  ELSE IF k = 2 THEN "get peers information"
  ELSE IF k = 3 THEN "find common ancestry"
  ELSE IF k = 4 THEN "locate changed documents"
  ELSE "replicate changes"

\* the request log shows phase k to have returned without error
PhaseOk(k) ==
  IF k = 1
  THEN \E i \in 1..Len(reqs) :
         PhaseOf(reqs[i]) = 1 /\ reqs[i].peer = "target" /\ reqs[i].ok
  ELSE IF k = 2
  THEN \A p \in {"source", "target"} :
         \E i \in 1..Len(reqs) :
           reqs[i].op = "Info" /\ reqs[i].peer = p /\ reqs[i].ok
  ELSE IF k = 3
  THEN \A p \in {"source", "target"} :
         \E i \in 1..Len(reqs) :
           reqs[i].op = "GetReplicationLog" /\ reqs[i].peer = p
             /\ reqs[i].st # "fail"
  ELSE \E i \in 1..Len(reqs) : reqs[i].op = "RevDiff" /\ reqs[i].ok

\* C13: the requests of a run come phase by phase, 1 to 5; a phase issues
\* requests only after every earlier phase returned without error; and when
\* Run returns an error it names the phase of the last request issued, so no
\* request of a later phase follows a phase that failed.
C13_PhasesInOrder ==
  /\ \A i \in 1..(Len(reqs) - 1) : PhaseOf(reqs[i]) <= PhaseOf(reqs[i + 1])
  /\ Len(reqs) > 0 => \A k \in 1..(PhaseOf(LastReq) - 1) : PhaseOk(k)
  /\ (pc = "idle" /\ ret.status = "error") =>
       /\ Len(reqs) > 0
       /\ ret.phase = PhaseName(PhaseOf(LastReq))
  /\ (pc = "idle" /\ ret.status = "ok") => \A k \in 1..4 : PhaseOk(k)

\* phase 4 failed after three phases that succeeded
C13_Witness ==
  /\ pc = "idle"
  /\ ret.status = "error"
  /\ ret.phase = "locate changed documents"
  /\ Len(reqs) > 0
  /\ LastReq.op = "RevDiff" /\ ~LastReq.ok
  /\ \A k \in 1..3 : PhaseOk(k)

\* ------------------------------------------------------------------ C14
\* FindCommonAncestry has fetched both logs and compared them
Compared ==
  /\ pc = "changes"
  /\ Len(reqs) >= 2
  /\ LastReq.op = "GetReplicationLog"

\* the answers to the two log requests
SourceLogSt == reqs[Len(reqs) - 1].st
TargetLogSt == reqs[Len(reqs)].st

BothLogsPresent == Compared /\ SourceLogSt = "ok" /\ TargetLogSt = "ok"

\* the top-level rule of the comparison applies to the two stored logs
SessionsMatch ==
  srcLog.SessionID = tgtLog.SessionID /\ srcLog.SourceLastSeq # ""

\* C15: when both logs are present, their top-level session ids are equal and
\* the source's source_last_seq is not empty, the startup sequence is the
\* source's source_last_seq, whatever the histories hold.
C15_MatchingSessionResumes ==
  (BothLogsPresent /\ SessionsMatch)
    => (sourceLastSeq = srcLog.SourceLastSeq
          /\ currentHistory.StartLastSeq = srcLog.SourceLastSeq)

\* the sessions match while the histories share a session with another
\* recorded sequence
C15_Witness ==
  /\ BothLogsPresent
  /\ SessionsMatch
  /\ ScanHistory(srcLog.History, tgtLog.History, 1) \notin {NoVersion, srcLog.SourceLastSeq}
  /\ sourceLastSeq = srcLog.SourceLastSeq

\* ------------------------------------------------------------------ C16
\* recordReplicationCheckpoint appends the new entry, so the latest entry of
\* a history is its last: the recorded_seq of the last source entry whose
\* session id occurs in the target history, "0" when there is none
RECURSIVE LatestCommon(_, _, _)
LatestCommon(sh, th, i) ==
  IF i = 0 THEN NoVersion
  ELSE IF \E j \in 1..Len(th) : sh[i].SessionID = th[j].SessionID
       THEN sh[i].RecordedSeq
       ELSE LatestCommon(sh, th, i - 1)

\* C16: when both logs are present and the top-level rule does not apply, the
\* startup sequence is the recorded_seq of the chronologically latest source
\* history entry whose session id also occurs in the target history, and "0"
\* when the histories share no session id.
C16_LatestCommonSession ==
  (BothLogsPresent /\ ~SessionsMatch)
    => sourceLastSeq = LatestCommon(srcLog.History, tgtLog.History, Len(srcLog.History))

\* ------------------------------------------------------------------ C17
\* the sequences the comparison can take from the source's log
Candidates(log) ==
  {NoVersion} \cup {log.SourceLastSeq} \cup
  {log.History[i].RecordedSeq : i \in 1..Len(log.History)}

\* C17: for every pair of logs the comparison ends without an error and
\* assigns one startup sequence: once the target's log request was answered
\* (200 or not-found) Run is in phase 4 with no error, and the startup
\* sequence is "0" or a sequence of the source's log, never left unassigned.
C17_ComparisonTotal ==
  (Len(reqs) >= 2 /\ LastReq.op = "GetReplicationLog" /\ LastReq.peer = "target"
     /\ LastReq.st # "fail")
    => /\ pc = "changes"
       /\ ret = NoRet
       /\ sourceLastSeq # ""
       /\ sourceLastSeq \in Candidates(sourceRepLog)
       /\ currentHistory = NewHistory(replicationID, sourceLastSeq)

\* two full histories without a shared session id were scanned to the end
C17_Witness ==
  /\ BothLogsPresent
  /\ ~SessionsMatch
  /\ Len(srcLog.History) = MaxHist
  /\ Len(tgtLog.History) = MaxHist
  /\ \A i \in 1..MaxHist, j \in 1..MaxHist :
       srcLog.History[i].SessionID # tgtLog.History[j].SessionID
  /\ sourceLastSeq = NoVersion

\* ------------------------------------------------------------------ C18
\* the latest entry of a log's history: the one appended last
Latest(log) == log.History[Len(log.History)]

\* the logs the peers hold (in a run of Spec: written by a run)
WrittenLogs == {srcLog, tgtLog} \ {Nil}

\* C18: in every replication log written by a run the top-level
\* source_last_seq equals the recorded_seq of the latest history entry.
C18_LastSeqIsRecordedSeq ==
  \A log \in WrittenLogs :
    /\ Len(log.History) > 0
    /\ log.SourceLastSeq = Latest(log).RecordedSeq

\* ------------------------------------------------------------------ C19
\* the log handed to the last checkpoint write of the run
SentLog == IF Count(IsCheckpoint) = 1 THEN sourceRepLog ELSE targetRepLog

\* C19: every log a run sends in a checkpoint write (and the peer stores when
\* the write succeeds) has replication_id_version 3, the replication identity
\* of the job as top-level session_id and as session_id of its latest history
\* entry, a source_last_seq equal to that entry's end sequence and to the
\* last_seq of the changes batch of phase 4, and the startup sequence chosen
\* by the log comparison as that entry's start sequence.
C19_CheckpointFields ==
  (Len(reqs) > 0 /\ IsCheckpoint(LastReq)) =>
    /\ Len(SentLog.History) > 0
    /\ SentLog.ReplicationIDVersion = 3
    /\ SentLog.SessionID = GenerateReplicationID
    /\ replicationID = GenerateReplicationID
    /\ Latest(SentLog).SessionID = GenerateReplicationID
    /\ SentLog.SourceLastSeq = Latest(SentLog).EndLastSeq
    /\ SentLog.SourceLastSeq = changes.LastSeq
    /\ Latest(SentLog).StartLastSeq = sourceLastSeq
    /\ LastReq.ok =>
         (IF LastReq.peer = "source" THEN srcLog ELSE tgtLog) = SentLog

\* both checkpoint writes of a run succeeded
C19_Witness ==
  /\ pc = "return"
  /\ Count(IsCheckpoint) = 2
  /\ LastReq.ok
  /\ srcLog # Nil
  /\ srcLog.SourceLastSeq = ToString(Len(srcDocs))

\* ------------------------------------------------------------------ C20
\* a checkpoint write that the peer stored
CheckpointStored ==
  /\ Len(reqs') = Len(reqs) + 1
  /\ IsCheckpoint(reqs'[Len(reqs')])
  /\ reqs'[Len(reqs')].ok

\* C20: a stored checkpoint leaves on each peer that peer's own history as
\* fetched at the start of the run, unchanged and in order, plus the one new
\* entry: the write made with the source's log extends the source's history
\* on the source, the write made with the target's log extends the target's
\* history on the target.
C20_HistoryAppendOnly ==
  [][CheckpointStored =>
       IF pc = "record_source"
       THEN /\ srcLog' # Nil
            /\ srcLog'.History = Append(sourceRepLog.History, currentHistory)
            /\ tgtLog' = tgtLog
       ELSE /\ tgtLog' # Nil
            /\ tgtLog'.History = Append(targetRepLog.History, currentHistory)
            /\ srcLog' = srcLog]_vars

\* ------------------------------------------------------------------ C21
\* GenerateReplicationID has returned for both jobs of the call
IdCalled == call # Nil /\ call.fn = "GenerateReplicationID" /\ result # Nil

\* the components of (name, job) in which x and y differ
Differing(x, y) ==
  {c \in {"name", "source url", "source headers", "target url",
           "target headers", "create target", "continuous"} :
     \/ c = "name" /\ x.name # y.name
     \/ c = "source url" /\ x.job.Source.URL # y.job.Source.URL
     \/ c = "source headers" /\ x.job.Source.Headers # y.job.Source.Headers
     \/ c = "target url" /\ x.job.Target.URL # y.job.Target.URL
     \/ c = "target headers" /\ x.job.Target.Headers # y.job.Target.Headers
     \/ c = "create target" /\ x.job.CreateTarget # y.job.CreateTarget
     \/ c = "continuous" /\ x.job.Continuous # y.job.Continuous}

\* two maps of headers with the same keys and one value changed
OneValueChanged(g, h) ==
  /\ DOMAIN g = DOMAIN h
  /\ Cardinality({k \in DOMAIN g : g[k] # h[k]}) = 1

\* x and y differ in exactly one of name, a URL, one header value, a flag
OneChange(x, y) ==
  /\ Cardinality(Differing(x, y)) = 1
  /\ "source headers" \in Differing(x, y)
       => OneValueChanged(x.job.Source.Headers, y.job.Source.Headers)
  /\ "target headers" \in Differing(x, y)
       => OneValueChanged(x.job.Target.Headers, y.job.Target.Headers)

\* C21: GenerateReplicationID hashes the same byte string (and returns the
\* same id) for the same name and job, in whatever order the headers are
\* ranged over, and hashes another byte string when exactly one of name,
\* source URL, target URL, one header value, create-target flag or continuous
\* flag is changed.
C21_IdentityDeterministic ==
  IdCalled =>
    /\ call.a = call.b => (result.bytesA = result.bytesB /\ result.a = result.b)
    /\ OneChange(call.a, call.b) => result.bytesA # result.bytesB

\* the same job with two headers, ranged over in two different orders
C21_Witness ==
  /\ IdCalled
  /\ call.a = call.b
  /\ result.orderA # result.orderB
  /\ result.bytesA = result.bytesB

\* ------------------------------------------------------------------ C22
\* C22: two (name, source URL, source headers, target URL, target headers,
\* create-target, continuous) tuples that differ in at least one component
\* hash different byte strings, also when a component contains '|' or is
\* empty.
C22_IdentityUnique ==
  (IdCalled /\ call.a # call.b) => result.bytesA # result.bytesB

\* ------------------------------------------------------------------ C23
\* the last request was a changes request answered with an empty batch
EmptyBatch ==
  /\ Len(reqs) > 0
  /\ LastReq.op = "Changes"
  /\ LastReq.ok
  /\ ChangesSince(sourceLastSeq).Results = {}

\* the requests that follow the changes request in a run
AfterChanges(r) ==
  \/ r.op = "RevDiff"
  \/ IsFetch(r) \/ IsWrite(r) \/ IsFence(r) \/ IsCheckpoint(r)

\* C23: in a non-continuous run an empty changes batch ends Run with an
\* error that is ErrReplicationCompleted (wrapped by the phase), and the run
\* has issued no revision diff, document fetch, document write, commit fence
\* or checkpoint request; Run returns that error in no other case.
C23_CompletedOnEmptyBatch ==
  /\ (~continuous /\ EmptyBatch) =>
       /\ pc = "idle"
       /\ ret = ErrRet("locate changed documents", ErrReplicationCompleted)
       /\ Count(AfterChanges) = 0
  /\ ret.cause = ErrReplicationCompleted => (~continuous /\ EmptyBatch)

\* a one-shot run on a source without documents
C23_Witness ==
  /\ ~continuous
  /\ EmptyBatch
  /\ pc = "idle"
  /\ ret.cause = ErrReplicationCompleted
  /\ Len(reqs) = 7

\* ------------------------------------------------------------------ C24
\* a changes request of a continuous run is answered with an empty batch
EmptyPoll ==
  /\ continuous
  /\ pc = "changes"
  /\ Len(reqs') = Len(reqs) + 1
  /\ reqs'[Len(reqs')].ok
  /\ ChangesSince(sourceLastSeq).Results = {}

\* C24: in continuous mode an empty changes batch returned without error
\* leaves the run polling the changes feed with the same since cursor, Run
\* not returning; and a continuous run never returns ErrReplicationCompleted.
C24_ContinuousKeepsPolling ==
  [][/\ EmptyPoll =>
          /\ pc' = "changes"
          /\ ret' = NoRet
          /\ sourceLastSeq' = sourceLastSeq
     /\ continuous => ret'.cause # ErrReplicationCompleted]_vars

\* a continuous run has polled the empty feed as often as the model allows
C24_Witness ==
  /\ continuous
  /\ pc = "changes"
  /\ polls = MaxPolls
  /\ ret = NoRet
  /\ Cardinality({i \in 1..Len(reqs) : reqs[i].op = "Changes" /\ reqs[i].ok}) = MaxPolls
  /\ srcDocs = <<>>

\* ------------------------------------------------------------------ C29
\* the function fn has returned for the response of the call
Returned(fn) == call # Nil /\ call.fn = fn /\ result # Nil

\* C29: Check, Info and GetReplicationLog return nil only for status 200,
\* return ErrNotFound exactly for status 404, and for every other status (and
\* when the round trip failed) return an error that is not ErrNotFound.
C29_StatusClassification ==
  \A fn \in {"Check", "Info", "GetReplicationLog"} :
    Returned(fn) =>
      /\ result.err = "" => (~call.resp.failed /\ call.resp.code = 200)
      /\ result.err = ErrNotFound <=> (~call.resp.failed /\ call.resp.code = 404)
      /\ (call.resp.failed \/ call.resp.code \notin {200, 404})
           => result.err \notin {"", ErrNotFound}

\* Info got a 404 and returned ErrNotFound
C29_Witness ==
  /\ Returned("Info")
  /\ ~call.resp.failed
  /\ call.resp.code = 404
  /\ result.err = ErrNotFound

\* ------------------------------------------------------------------ C30
\* the status codes that report success
SuccessCodes == {c \in StatusCodes : c >= 200 /\ c < 300}

\* C30: Create returns nil only when the status is a success status and the
\* ok field of the body is true, and fails whenever the ok field is not true
\* or the status is not a success status.
C30_CreateChecksStatus ==
  Returned("Create") =>
    (result.err = "" <=>
       (~call.resp.failed /\ call.resp.code \in SuccessCodes
          /\ call.resp.json /\ call.resp.ok))

\* ------------------------------------------------------------------ C25
\* InlineAttachments has returned nil for the document of the call
Inlined == Returned("InlineAttachments") /\ result.err = ""

\* the entry has base64 data and none of the descriptive fields
SelfDescribing(attObj) ==
  /\ "data" \in DOMAIN attObj
  /\ DOMAIN attObj \cap {"stub", "digest", "length", "follows"} = {}

\* the names of the attachments whose part was fetched
Fetched(d) == {d.attachments[i].filename : i \in DOMAIN d.attachments}

\* C25: after a successful InlineAttachments every entry of _attachments has
\* a base64 data field and none of stub, digest, length, follows, the entries
\* without a fetched part included.
C25_AllEntriesSelfDescribing ==
  Inlined =>
    \A f \in DOMAIN result.Data.atts : SelfDescribing(result.Data.atts[f])

\* ------------------------------------------------------------------ C26
\* the uncompressed bytes of the attachment a part carries
Uncompressed(attObj, bytes) ==
  IF "encoding" \in DOMAIN attObj /\ attObj["encoding"] = "gzip"
  THEN Gunzip(bytes) ELSE bytes

BadPart(d) ==
  \E i \in DOMAIN d.attachments :
    \/ d.attachments[i].filename = ""
    \/ d.attachments[i].filename \notin DOMAIN d.Data.atts

\* InlineAttachments returns an error for every document with such a part
InlineRejectsBadParts ==
  \A d \in CompleteDocs : BadPart(d) => InlineAttachments(d).err # ""

\* Run has returned the error of InlineAttachments
InlineFailed ==
  /\ pc = "idle"
  /\ ret.status = "error"
  /\ ret.cause \in {ErrFilenameMissing, ErrNoAttachments, ErrNoEntry}

\* C27: InlineAttachments returns an error when a part's Content-Disposition
\* has no file name and when _attachments has no entry for the file name; a
\* run whose ReplicateChanges got that error ends with it right after the
\* fetch of the document, the document is not on the stack, and the run has
\* written no checkpoint.
C27_InlineErrorAborts ==
  /\ InlineRejectsBadParts
  /\ InlineFailed =>
       /\ ret.phase = "replicate changes"
       /\ IsFetch(LastReq) /\ LastReq.ok /\ LastReq.docs = <<doc>>
       /\ \A k \in DOMAIN stack : stack[k] # doc
       /\ Count(IsCheckpoint) = 0

\* a run ended on a part without a file name while another document was
\* already on the stack
C27_Witness ==
  /\ InlineFailed
  /\ ret.cause = ErrFilenameMissing
  /\ stack # <<>>
\* ------------------------------------------------------------------ C28
\* NewCompleteDoc has returned the document of the response of the call
Decoded == Returned("NewCompleteDoc") /\ result.err = ""

\* the inner parts of the multipart/related parts of a response, in order
RECURSIVE InnerOf(_)
InnerOf(parts) ==
  IF parts = <<>> THEN <<>>
  ELSE (IF HasPrefix(Head(parts).contentType, "multipart/related")
        THEN Head(parts).parts ELSE <<>>) \o InnerOf(Tail(parts))

\* the positions of a sequence of parts where P holds
Where(parts, P(_)) == {i \in DOMAIN parts : P(parts[i])}

IsJSONPart(part) == part.contentType = "application/json"
IsRelatedPart(part) == HasPrefix(part.contentType, "multipart/related")
IsDocumentPart(part) == part.disposition = ""
IsAttachmentPart(part) == HasPrefix(part.disposition, "attachment")

\* C28: a response with a top-level part that is neither application/json
\* nor multipart/related is not decoded; in a decoded response every
\* application/json top-level part and every inner part without
\* Content-Disposition was decoded as the document, every inner part whose
\* Content-Disposition starts with attachment was stored as one attachment
\* with its file name and bytes, and nothing else was stored;
\* HasChangedAttachments is true exactly when such a part was stored.
C28_PartsClassified ==
  Returned("NewCompleteDoc") =>
    LET top == call.resp.parts
        inner == InnerOf(top)
    IN /\ (\E i \in DOMAIN top : ~IsJSONPart(top[i]) /\ ~IsRelatedPart(top[i]))
            => result.err # ""
       /\ result.err = "" =>
            /\ Len(result.decoded) =
                 Cardinality(Where(top, IsJSONPart))
                   + Cardinality(Where(inner, IsDocumentPart))
            /\ Len(result.attachments) =
                 Cardinality(Where(inner, IsAttachmentPart))
            /\ \A k \in DOMAIN result.attachments :
                 \E i \in Where(inner, IsAttachmentPart) :
                   /\ result.attachments[k].data = inner[i].body
                   /\ result.attachments[k].filename = "f"
            /\ (\A i \in DOMAIN top : IsJSONPart(top[i]))
                 => result.attachments = <<>>
            /\ HasChangedAttachments(result)
                 <=> Where(inner, IsAttachmentPart) # {}

\* a response with an application/json part and a multipart/related part that
\* holds the document and an attachment was decoded
C28_Witness ==
  /\ Decoded
  /\ \E i, j \in DOMAIN call.resp.parts :
       /\ IsJSONPart(call.resp.parts[i])
       /\ IsRelatedPart(call.resp.parts[j])
       /\ Len(call.resp.parts[j].parts) = 2
  /\ Len(result.decoded) = 2
  /\ Len(result.attachments) = 1

\* ------------------------------------------------------------------ C31
\* the step issues a request
Issued == Len(reqs') = Len(reqs) + 1

\* the places where Run goes on after a not-found answer
Recovered(r) ==
  \/ r.op = "Check" /\ r.peer = "target" /\ createTarget
  \/ r.op = "GetReplicationLog"

\* the step ends the run with the error given
Aborts(cause) == pc' = "idle" /\ ret'.status = "error" /\ ret'.cause = cause

\* C31: a request answered not-found lets the run go on in two places only,
\* the Check of the target of a job with create_target, and the fetch of the
\* replication log of either peer, which is then taken for an empty log; a
\* not-found answer to any other request ends the run with the not-found
\* error, and any other error of a log fetch ends the run.
C31_NotFoundRecovery ==
  [][Issued =>
       LET r == reqs'[Len(reqs')]
       IN /\ (r.st = "notfound" /\ ~Recovered(r)) => Aborts(ErrNotFound)
          /\ (r.st = "notfound" /\ Recovered(r)) =>
               /\ pc' # "idle"
               /\ r.op = "Check" => pc' = "create_target"
               /\ (r.op = "GetReplicationLog" /\ r.peer = "source")
                    => fetchedLog' = EmptyLog
               /\ (r.op = "GetReplicationLog" /\ r.peer = "target")
                    => targetRepLog' = EmptyLog
          /\ (r.st = "fail" /\ r.op = "GetReplicationLog")
               => Aborts(LogErr("fail"))]_vars

\* the changes feed answered not-found after both logs were found missing,
\* and the run ended
C31_Witness ==
  /\ pc = "idle"
  /\ ret = ErrRet("locate changed documents", ErrNotFound)
  /\ LastReq.op = "Changes"
  /\ \E i, j \in 1..Len(reqs) :
       /\ reqs[i].op = "GetReplicationLog" /\ reqs[i].peer = "source"
       /\ reqs[j].op = "GetReplicationLog" /\ reqs[j].peer = "target"
       /\ reqs[i].st = "notfound" /\ reqs[j].st = "notfound"

\* ------------------------------------------------------------------ C32
\* the step issues a checkpoint write
CheckpointIssued == Issued /\ IsCheckpoint(reqs'[Len(reqs')])

\* the step is the second checkpoint write of the run, and it fails
SecondWriteFails ==
  /\ CheckpointIssued
  /\ Count(IsCheckpoint) = 1
  /\ ~reqs'[Len(reqs')].ok

\* the step is the comparison of the two logs fetched by FindCommonAncestry
Compares == pc = "target_log" /\ pc' = "changes"

\* the recorded sequences of the sessions both histories hold
CommonSeqs(source, target) ==
  {source.History[i].RecordedSeq :
     i \in {k \in DOMAIN source.History :
              \E j \in DOMAIN target.History :
                source.History[k].SessionID = target.History[j].SessionID}}

\* C32: the second checkpoint write is issued right after the first and only
\* when the first succeeded; when the second fails Run returns an error and
\* the log stored by the first write stays stored; and a run that finds
\* different session ids on the two peers takes its startup sequence from a
\* session recorded in both histories or starts at "0", never from the
\* source_last_seq of the log of one peer.
C32_OneSidedTolerated ==
  [][/\ (CheckpointIssued /\ Count(IsCheckpoint) > 0) =>
          /\ Count(IsCheckpoint) = 1
          /\ IsCheckpoint(LastReq) /\ LastReq.ok
     /\ SecondWriteFails =>
          /\ pc' = "idle" /\ ret'.status = "error"
          /\ srcLog' = srcLog /\ tgtLog' = tgtLog
          /\ srcLog = sourceRepLog \/ tgtLog = sourceRepLog
     /\ (Compares /\ fetchedLog.SessionID # targetRepLog'.SessionID) =>
          sourceLastSeq' \in {NoVersion} \cup CommonSeqs(fetchedLog, targetRepLog')
    ]_vars

\* the run after one whose second checkpoint write failed has compared the
\* logs: the source holds the log of the first write, the target none, and
\* the run starts at "0"
C32_Witness ==
  /\ runs = 2
  /\ prevRet.status = "error"
  /\ pc = "changes" /\ polls = 0
  /\ srcLog # Nil /\ srcLog.SourceLastSeq # ""
  /\ tgtLog = Nil
  /\ sourceRepLog = srcLog
  /\ sourceLastSeq = NoVersion

\* ------------------------------------------------------------------ C33
\* the batches a changes feed can hold: up to MaxDocs entries, each with an
\* id and one to MaxRevs revision tokens; an id can come more than once
RevTokens == {"1-a", "2-b"}
ChangeBatches ==
  LET revs == UNION {[1..n -> RevTokens] : n \in 1..MaxRevs}
  IN UNION {[1..n -> [ID : 1..2, Changes : revs]] : n \in 0..MaxDocs}

\* the revision tokens of all the entries of a batch for one id, in feed order
RECURSIVE RevsFor(_, _)
RevsFor(results, id) ==
  IF results = <<>> THEN <<>>
  ELSE (IF Head(results).ID = id THEN Head(results).Changes ELSE <<>>)
         \o RevsFor(Tail(results), id)

\* the request built from a batch has the ids of the batch, each with all
\* its revision tokens in feed order
RequestConcatenates ==
  \A batch \in ChangeBatches :
    LET diff == BuildDiff(NoDiff, batch)
    IN /\ DOMAIN diff = {batch[i].ID : i \in DOMAIN batch}
       /\ \A id \in DOMAIN diff : diff[id] = RevsFor(batch, id)

\* C33: the revision-diff request maps each id of the batch to all the
\* revision tokens of its entries in feed order; an iteration of phase 4 adds
\* the number of ids of the request to missing_found and the number of ids of
\* the target's answer to missing_checked; and the phase returns a non-empty
\* diff map together with the last sequence of the batch the map was
\* computed from.
C33_DiffBookkeeping ==
  [][/\ RequestConcatenates
     /\ (pc = "changes" /\ pc' = "revs_diff") =>
          /\ changes'.Results # {}
          /\ currentHistory' =
               [currentHistory EXCEPT !.MissingFound =
                  @ + Cardinality(changes'.Results)]
     /\ (Issued /\ pc = "revs_diff" /\ pc' # "idle") =>
          currentHistory' =
            [currentHistory EXCEPT !.MissingChecked =
               @ + Cardinality(changes.Results \ tgtDocs)]
     /\ (pc = "revs_diff" /\ pc' = "fetch") =>
          /\ diffResp' # {}
          /\ diffResp' = changes.Results \ tgtDocs
          /\ lastSeq' = changes.LastSeq
          /\ todo' = diffResp'
    ]_vars

\* phase 4 has returned a diff map smaller than the batch it asked about
C33_Witness ==
  /\ pc = "fetch"
  /\ todo = diffResp
  /\ currentHistory.MissingFound = 2
  /\ currentHistory.MissingChecked = 1
  /\ lastSeq = changes.LastSeq

\* ------------------------------------------------------------------ C34
\* a request that reads or writes documents: a fetch, a bulk upload, a direct
\* upload or a commit fence
IsDocumentRequest(r) == IsFetch(r) \/ IsWrite(r) \/ IsFence(r)

\* C34: once a run has issued a checkpoint write it issues no fetch, bulk
\* upload, direct upload or commit fence any more; the only request that
\* follows the first checkpoint write is the second one, issued right after
\* it and only when the first succeeded.
C34_CheckpointsAfterDocuments ==
  [][(Issued /\ Count(IsCheckpoint) > 0) =>
       /\ ~IsDocumentRequest(reqs'[Len(reqs')])
       /\ IsCheckpoint(reqs'[Len(reqs')])
       /\ Count(IsCheckpoint) = 1
       /\ IsCheckpoint(LastReq)
       /\ LastReq.ok
       /\ \A i \in 1..(Len(reqs) - 1) : ~IsCheckpoint(reqs[i])
    ]_vars

\* both checkpoint writes were issued after a fetch, a bulk upload and a
\* commit fence
C34_Witness ==
  /\ pc = "return"
  /\ Count(IsCheckpoint) = 2
  /\ IsCheckpoint(reqs[Len(reqs) - 1])
  /\ \E i, j, k \in 1..Len(reqs) :
       IsFetch(reqs[i]) /\ reqs[j].op = "BulkDocs" /\ IsFence(reqs[k])

\* ------------------------------------------------------------------ C35
\* the fields of an endpoint signature: the URL, then key and value of each
\* header, the keys in ascending byte order
RECURSIVE HeaderFields(_, _)
HeaderFields(headers, keys) ==
  IF keys = <<>> THEN <<>>
  ELSE <<Head(keys), headers[Head(keys)]>> \o HeaderFields(headers, Tail(keys))

Signature(remote) ==
  <<remote.URL>>
    \o HeaderFields(remote.Headers,
                    SortKeys(CHOOSE o \in Orders(DOMAIN remote.Headers) : TRUE))

\* fields with one '|' between every two adjacent fields
RECURSIVE Joined(_)
Joined(fields) ==
  IF fields = <<>> THEN ""
  ELSE IF Len(fields) = 1 THEN Head(fields)
  ELSE Head(fields) \o "|" \o Joined(Tail(fields))

\* name | src_sig | tgt_sig | createTargetFlag | continuousFlag
FormulaBytes(name, job) ==
  Joined(<<name>> \o Signature(job.Source) \o Signature(job.Target)
           \o <<IF job.CreateTarget THEN "T" ELSE "F",
                IF job.Continuous THEN "T" ELSE "F">>)

\* C35: the byte string GenerateReplicationID hashes is
\* name | src_sig | tgt_sig | createTargetFlag | continuousFlag with one '|'
\* between every two adjacent fields, each signature being the URL followed by
\* key and value of each header in ascending key order, each flag T or F.
C35_HashedBytesAsFormula ==
  IdCalled => result.bytesA = FormulaBytes(call.a.name, call.a.job)

\* ------------------------------------------------------------------ C36
\* the sizes of the documents at the positions given, added up
RECURSIVE SumOver(_, _)
SumOver(s, positions) ==
  IF positions = {} THEN 0
  ELSE LET i == CHOOSE k \in positions : TRUE
       IN s[i].size + SumOver(s, positions \ {i})

\* C36: Size is the sum of the sizes of the documents of the stack, 0 for
\* the empty stack; the body Reader encodes lists the data of the documents
\* of the stack, each once and in append order, and has new_edits false.
C36_StackContract ==
  /\ Returned("Size") =>
       /\ result.size = SumOver(call.stack, DOMAIN call.stack)
       /\ call.stack = <<>> => result.size = 0
  /\ Returned("Reader") =>
       /\ Len(result.body.docs) = Len(call.stack)
       /\ \A i \in DOMAIN call.stack :
            result.body.docs[i] = call.stack[i].Data
       /\ result.body.new_edits = FALSE

\* the size of a stack of two documents of different sizes, and the body of
\* a stack of two documents with different data
C36_Witness ==
  \/ /\ Returned("Size")
     /\ Len(call.stack) = 2
     /\ call.stack[1].size # call.stack[2].size
  \/ /\ Returned("Reader")
     /\ Len(call.stack) = 2
     /\ call.stack[1].Data # call.stack[2].Data

\* ------------------------------------------------------------------ C37
\* Run is in phase 4 or phase 5
InPhase4Or5 ==
  pc \in {"changes", "revs_diff", "fetch", "upload", "bulk", "bulk_rest",
          "commit", "commit_rest", "finalize", "record_source",
          "record_target"}

\* the documents of a sequence of requests, counted
RECURSIVE TotalDocs(_)
TotalDocs(rs) ==
  IF rs = <<>> THEN 0 ELSE Len(Head(rs).docs) + TotalDocs(Tail(rs))

FetchedOk(r) == IsFetch(r) /\ r.ok
WrittenOk(r) == IsWrite(r) /\ r.ok
WriteFailed(r) == IsWrite(r) /\ ~r.ok

\* the in-progress record holds what this run did and nothing else
OwnRecord ==
  InPhase4Or5 =>
    /\ currentHistory # Nil
    /\ currentHistory.StartLastSeq = sourceLastSeq
    /\ currentHistory.DocsRead = TotalDocs(SelectSeq(reqs, FetchedOk))
    /\ currentHistory.DocsWritten = TotalDocs(SelectSeq(reqs, WrittenOk))
    /\ currentHistory.DocWriteFailures = TotalDocs(SelectSeq(reqs, WriteFailed))
    /\ \A i \in 1..Len(reqs) :
         IsFetch(reqs[i]) => reqs[i].docs[1] \in diffResp \cap changes.Results

\* C37: every Run makes a new history record, with all counters at zero and
\* the startup sequence it computed from the logs it fetched itself; from
\* then on the record exists and its counters count the requests of this
\* Run only, and the documents this Run fetches are those of the diff map of
\* its own changes batch, whatever an earlier Run left in the Replicator.
C37_RunsIndependent ==
  [][/\ Compares =>
          /\ sourceLastSeq' = CompareReplicationLogs(fetchedLog, targetRepLog')
          /\ currentHistory'.StartLastSeq = sourceLastSeq'
          /\ currentHistory'.SessionID = replicationID
          /\ \A c \in {"DocsRead", "DocsWritten", "DocWriteFailures",
                        "MissingFound", "MissingChecked"} :
               currentHistory'[c] = 0
     /\ OwnRecord'
    ]_vars

\* a second Run has made its record after a Run that wrote documents and
\* failed, leaving its record and diff map in the Replicator
C37_Witness ==
  /\ runs = 2
  /\ prevRet.status = "error"
  /\ pc = "changes" /\ polls = 0
  /\ tgtDocs # {}
  /\ diffResp # {}
  /\ currentHistory.DocsRead = 0
====
